---- MODULE Spec2Model ----
(***************************************************************************)
(* Model Arena: the SSE /stream handler of src/api/model-arena/route.ts,   *)
(* the shared helpers of src/agent/model-arena (lib.ts, prompts.ts,        *)
(* types.ts) and the React client of src/web/components/ModelArena.tsx.    *)
(*                                                                         *)
(* JavaScript runs each callback to completion, so one action is one       *)
(* synchronous stretch of code between two awaits.                         *)
(***************************************************************************)
EXTENDS Integers, Sequences, FiniteSets, TLC

(***************************************************************************)
(* Bounds of the model.                                                    *)
(***************************************************************************)
\* number of /stream requests handled concurrently
MaxRequests == 2
\* number of POST /create handlers that can run at the same time
MaxCreators == 2
\* number of streams the stream service creates in a run
MaxStreamIds == 12
\* number of chunks a textStream yields at most
MaxChunks == 2
\* number of summaries requested in a run that follows their background tasks
MaxSummaries == 2
\* generationMs = Date.now() - start ranges over 0..MaxMs
MaxMs == 1
\* usage.totalTokens, when the provider reports it, ranges over 0..MaxTokens
MaxTokens == 1
\* the client opens at most MaxRuns EventSources
MaxRuns == 2
\* the component constructs at most MaxSockets WebSockets
MaxSockets == 4
\* handler invocations of the chat agent in flight at once
MaxChatSlots == 2
\* requests made to the chat agent in a run
MaxChatRequests == 4

(***************************************************************************)
(* Configuration: types.ts, lib.ts, route.ts.                              *)
(***************************************************************************)
PROVIDERS == <<"openai", "anthropic">>

ProviderSet == {PROVIDERS[i] : i \in DOMAIN PROVIDERS}

PROVIDER_DISPLAY_NAMES == [openai |-> "OpenAI", anthropic |-> "Anthropic"]

MODELS ==
    << [provider |-> "openai", model |-> "gpt-5-nano"],
       [provider |-> "anthropic", model |-> "claude-haiku-4-5"] >>

ModelProviders == {MODELS[i].provider : i \in DOMAIN MODELS}

ConfigOf(p) == CHOOSE c \in {MODELS[i] : i \in DOMAIN MODELS} : c.provider = p

FIXED_PROMPT == "A robot discovers it can dream"

FIXED_TONE == "sci-fi"

\* c.var.sessionId
SessionId == "sess_1"

(***************************************************************************)
(* What the outside world can answer.                                      *)
(***************************************************************************)
\* usage is undefined when the provider sends no usage metadata
NoUsage == -1

\* the { text, usage } a generateText call can resolve to
GenTexts == {"Unit 7 dreamed of rain."}

GenUsages == {NoUsage} \cup (0..MaxTokens)

\* the values a failed call can throw: an Error with a message, or a non-Error
Thrown == { [isError |-> TRUE, message |-> "rate limited"],
            [isError |-> FALSE, message |-> ""] }

\* provider names a judge model can put in its answer; "gemini" is not in PROVIDERS
RawProviders == ProviderSet \cup {"gemini"}

\* scores in tenths: 5 is 0.5, 15 is 1.5
RawScores == {5, 15}

\* a list of a judge answer, one entry per provider of cov, in PROVIDERS order
ScoreList(cov, score) ==
    LET ps == SelectSeq(PROVIDERS \o <<"gemini">>, LAMBDA p : p \in cov)
    IN  [i \in DOMAIN ps |-> [provider |-> ps[i], score |-> score, reason |-> "r"]]

BinaryList(cov, passed) ==
    LET ps == SelectSeq(PROVIDERS \o <<"gemini">>, LAMBDA p : p \in cov)
    IN  [i \in DOMAIN ps |-> [provider |-> ps[i], passed |-> passed, reason |-> "r"]]

\* the lists of a judge answer: every list covers `base`, except the list named
\* `odd` (if any), which covers `alt`
ListNames == {"creativity", "engagement", "toneMatch", "wordCount"}

CoverOf(list, base, odd, alt) == IF odd = list THEN alt ELSE base

\* the objects the judge model can answer with, before schema validation
JudgeAnswers ==
    { [ winner |-> w,
        reasoning |-> "because",
        scores |-> [creativity |-> ScoreList(CoverOf("creativity", base, odd, alt), s),
                    engagement |-> ScoreList(CoverOf("engagement", base, odd, alt), s)],
        checks |-> [toneMatch |-> BinaryList(CoverOf("toneMatch", base, odd, alt), TRUE),
                    wordCount |-> BinaryList(CoverOf("wordCount", base, odd, alt), FALSE)] ]
      : w \in RawProviders, base \in SUBSET ProviderSet, odd \in ListNames \cup {"none"},
        alt \in {{}, {"gemini"}}, s \in RawScores }

Range(f) == {f[i] : i \in DOMAIN f}

(***************************************************************************)
(* types.ts: the Zod schemas given to generateObject.                      *)
(***************************************************************************)
ProviderScoreSchema(e) == e.provider \in ProviderSet /\ e.score \in Int

ProviderBinarySchema(e) == e.provider \in ProviderSet /\ e.passed \in BOOLEAN

JudgmentSchema(j) ==
    /\ j.winner \in ProviderSet
    /\ \A e \in Range(j.scores.creativity) : ProviderScoreSchema(e)
    /\ \A e \in Range(j.scores.engagement) : ProviderScoreSchema(e)
    /\ \A e \in Range(j.checks.toneMatch) : ProviderBinarySchema(e)
    /\ \A e \in Range(j.checks.wordCount) : ProviderBinarySchema(e)

(***************************************************************************)
(* lib.ts: generateStory, given what generateText resolved to.             *)
(***************************************************************************)
\* a result whose token count is estimated from the text when usage is missing
generateStory_EstimatesTokens(config, text, usage, elapsed) ==
    [ provider |-> config.provider,
      model |-> config.model,
      story |-> text,
      generationMs |-> elapsed,
      tokens |-> IF usage = NoUsage THEN Len(text) \div 4 ELSE usage ]

generateStory(config, text, usage, elapsed) ==
    [ provider |-> config.provider,
      model |-> config.model,
      story |-> text,
      generationMs |-> elapsed,
      tokens |-> IF usage = NoUsage THEN 0 ELSE usage ]

\* a prompt that skips the first result
getJudgePrompt_SkipsFirst(res, theTone, thePrompt) ==
    [ prompt |-> thePrompt,
      tone |-> theTone,
      stories |-> [i \in 1..(Len(res) - 1) |->
                     [name |-> PROVIDER_DISPLAY_NAMES[res[i + 1].provider],
                      story |-> res[i + 1].story]] ]

(***************************************************************************)
(* prompts.ts: getJudgePrompt. The prompt is kept as its parts: the fixed  *)
(* request and one delimited section per element of results.               *)
(***************************************************************************)
getJudgePrompt(res, theTone, thePrompt) ==
    [ prompt |-> thePrompt,
      tone |-> theTone,
      stories |-> [i \in DOMAIN res |->
                     [name |-> PROVIDER_DISPLAY_NAMES[res[i].provider],
                      story |-> res[i].story]] ]

NoPrompt == [prompt |-> "", tone |-> "", stories |-> <<>>]

(***************************************************************************)
(* State.                                                                  *)
(***************************************************************************)
VARIABLES
    hpc,          \* where the /stream handler is
    tpc,          \* per provider: where its task of `promises` is
    settled,      \* per provider: how its generateStory call settled
    results,      \* route.ts:69, the results array
    stream,       \* the events written with stream.writeSSE, in order
    judgeCalls,   \* number of generateObject calls made
    judgePrompt,  \* the prompt of the last generateObject call
    judgeAnswer,  \* what the generateObject call got: the model's answer, or a thrown error
    conn,         \* the client's connection: "open", or lost with writes that throw or do nothing
    writeCalls,   \* the events stream.writeSSE was called with, in order
    genCalls,     \* per provider: number of generateText calls made
    genReply      \* per provider: the { text, usage } its generateText call resolved to

serverVars == <<hpc, tpc, settled, results, stream, judgeCalls, judgePrompt, judgeAnswer,
                conn, writeCalls, genCalls, genReply>>

\* ModelArena.tsx: the ArenaState of useState, eventSourceRef and the EventSources
VARIABLES
    status,          \* state.status
    prompt,          \* state.prompt
    tone,            \* state.tone
    providers,       \* state.providers
    stories,         \* state.stories, a Map from provider to StoryResult
    errors,          \* state.errors, a Map from provider to message
    judgment,        \* state.judgment
    globalError,     \* state.globalError
    eventSourceRef,  \* eventSourceRef.current: 0 for null, else the number of an EventSource
    readyState       \* per EventSource: "none" before it is constructed, then its readyState

clientVars == <<status, prompt, tone, providers, stories, errors, judgment, globalError,
                eventSourceRef, readyState>>

\* the model-arena agent (agent.ts of src/agent/model-arena): one invocation
VARIABLES
    apc,               \* where the agent handler is
    agentInput,        \* the validated input { prompt, tone }
    agentSettled,      \* per provider: how its generateStory call settled
    agentValue,        \* per provider: the ModelResult or the error it settled with
    agentAll,          \* the promise of Promise.all(MODELS.map(...))
    agentResults,      \* the results constant of the handler
    agentJudgeCalls,   \* number of generateObject calls made by judgeStories
    agentJudgePrompt,  \* the prompt of the generateObject call
    agentOutput,       \* what the handler returned or threw
    agentOrder         \* the providers whose generateStory call fulfilled, in the order they did

agentVars == <<apc, agentInput, agentSettled, agentValue, agentAll, agentResults,
               agentJudgeCalls, agentJudgePrompt, agentOutput, agentOrder>>

\* several /stream requests handled by the same server process
VARIABLES
    reqs,    \* per request: the handler's position, its tasks, its local results
             \* array, the events written to its stream and its judge prompt
    shared   \* the module-level constants every handler reads

reqVars == <<reqs, shared>>

\* the durable-stream route (src/api/durable-stream/route.ts) and the stream service
VARIABLES
    store,     \* the stored streams named "ai-summary": records [id, startTime]
    nextId,    \* number of streams the service has created so far
    clock,     \* the time `new Date()` gives, in ticks
    cpc,       \* per POST /create handler: where it is
    ctarget,   \* per POST /create handler: oldest.id, the stream it is about to delete
    cstart,    \* per POST /create handler: metadata.startTime of the stream it creates
    bg         \* per stream id: the generateInBackground task of the stream

durVars == <<store, nextId, clock, cpc, ctarget, cstart, bg>>

\* the WebSocket demo component (WebSocketDemo) and the sockets it constructs
VARIABLES
    wsRef,                 \* wsRef.current: 0 for null, else the number of a WebSocket
    isConnected,           \* state isConnected
    isConnecting,          \* state isConnecting
    isReconnecting,        \* state isReconnecting
    wasConnectedRef,       \* wasConnectedRef.current
    manualDisconnectRef,   \* manualDisconnectRef.current
    reconnectTimeoutRef,   \* reconnectTimeoutRef.current: 0 for null, else a timer id
    sockets,               \* per WebSocket: its readyState ("none" before it is constructed)
                           \* and the isReconnect its callbacks closed over
    timers,                \* the pending setTimeout timers, in the order they will fire
    nextTimer,             \* number of timers set so far
    wsMessages             \* the "reconnect" entries of state messages, in order

wsVars == <<wsRef, isConnected, isConnecting, isReconnecting, wasConnectedRef,
            manualDisconnectRef, reconnectTimeoutRef, sockets, timers, nextTimer, wsMessages>>

\* the chat agent (src/agent/chat/agent.ts) and the thread state its requests share
VARIABLES
    thread,      \* ctx.thread.state: the keys that are set, turnCount, messages, startedAt
    chatReqs,    \* per handler invocation in flight: where it is and its local constants
    chatCount,   \* number of requests made so far
    turns        \* the chat turns completed since the last completed reset, in order

chatVars == <<thread, chatReqs, chatCount, turns>>

vars == <<serverVars, clientVars, agentVars, reqVars, durVars, wsVars, chatVars>>

NoAnswer == [none |-> TRUE]

\* `error instanceof Error ? error.message : "Unknown error"`
messageOf(error) == IF error.isError THEN error.message ELSE "Unknown error"

writeSSE(s, ev) == Append(s, ev)

\* what generateText resolved to, before it has resolved
NoReply == [none |-> TRUE]

\* `await stream.writeSSE(ev)`: the call is made; the event reaches the client
\* only over an open connection
Write(ev) ==
    /\ writeCalls' = Append(writeCalls, ev)
    /\ stream' = IF conn = "open" THEN writeSSE(stream, ev) ELSE stream

\* stream.writeSSE is not part of this repository: on a lost connection the
\* awaited call either rejects or resolves without effect
WriteThrows == conn = "lostThrows"

\* the Error a rejected write throws
WriteError == [isError |-> TRUE, message |-> "stream closed"]

(***************************************************************************)
(* The payloads of route.ts.                                               *)
(***************************************************************************)
\* a start event that leaves out the last provider of MODELS
StartEvent_OmitsLast ==
    [ event |-> "start",
      id |-> "start",
      data |-> [ prompt |-> FIXED_PROMPT,
                 tone |-> FIXED_TONE,
                 providers |-> [i \in 1..(Len(MODELS) - 1) |->
                     [ provider |-> MODELS[i].provider,
                       displayName |-> PROVIDER_DISPLAY_NAMES[MODELS[i].provider],
                       model |-> MODELS[i].model ]] ] ]

StartEvent ==
    [ event |-> "start",
      id |-> "start",
      data |-> [ prompt |-> FIXED_PROMPT,
                 tone |-> FIXED_TONE,
                 providers |-> [i \in DOMAIN MODELS |->
                     [ provider |-> MODELS[i].provider,
                       displayName |-> PROVIDER_DISPLAY_NAMES[MODELS[i].provider],
                       model |-> MODELS[i].model ]] ] ]

StoryEvent(result) ==
    [ event |-> "story",
      id |-> "story-" \o result.provider,
      data |-> [ provider |-> result.provider,
                 displayName |-> PROVIDER_DISPLAY_NAMES[result.provider],
                 model |-> result.model,
                 story |-> result.story,
                 generationMs |-> result.generationMs,
                 tokens |-> result.tokens ] ]

ProviderErrorEvent(config, message) ==
    [ event |-> "error",
      id |-> "error-" \o config.provider,
      data |-> [ provider |-> config.provider,
                 displayName |-> PROVIDER_DISPLAY_NAMES[config.provider],
                 error |-> message ] ]

JudgingEvent ==
    [ event |-> "judging",
      id |-> "judging",
      data |-> [message |-> "All stories complete, judge evaluating..."] ]

CompleteEvent(object) ==
    [ event |-> "complete",
      id |-> "complete",
      data |-> [ id |-> SessionId,
                 judgment |-> [ winner |-> object.winner,
                                reasoning |-> object.reasoning,
                                scores |-> object.scores,
                                checks |-> object.checks,
                                winnerDisplayName |-> PROVIDER_DISPLAY_NAMES[object.winner] ] ] ]

\* a judge error that names a provider like the per-provider errors do
JudgeErrorEvent_WithProvider(message) ==
    [ event |-> "error",
      id |-> "judge-error",
      data |-> [provider |-> "judge", error |-> "Judge failed: " \o message] ]

JudgeErrorEvent(message) ==
    [ event |-> "error",
      id |-> "judge-error",
      data |-> [error |-> "Judge failed: " \o message] ]

(***************************************************************************)
(* The /stream handler.                                                    *)
(***************************************************************************)
ServerInit ==
    /\ hpc = "accepted"
    /\ tpc = [p \in ModelProviders |-> "unborn"]
    /\ settled = [p \in ModelProviders |-> "pending"]
    /\ results = <<>>
    /\ stream = <<>>
    /\ judgeCalls = 0
    /\ judgePrompt = NoPrompt
    /\ judgeAnswer = NoAnswer
    /\ conn = "open"
    /\ writeCalls = <<>>
    /\ genCalls = [p \in ModelProviders |-> 0]
    /\ genReply = [p \in ModelProviders |-> NoReply]

\* route.ts:55-67
SendStart ==
    /\ hpc = "accepted"
    /\ Write(StartEvent)
    /\ hpc' = IF WriteThrows THEN "threw" ELSE "started"
    /\ UNCHANGED clientVars
    /\ UNCHANGED agentVars
    /\ UNCHANGED reqVars
    /\ UNCHANGED durVars
    /\ UNCHANGED <<wsVars, chatVars>>
    /\ UNCHANGED <<tpc, settled, results, judgeCalls, judgePrompt, judgeAnswer, conn,
                   genCalls, genReply>>

\* a loop that starts a provider's task only when the task before it is done
FanOut_Sequential ==
    /\ hpc \in {"started", "waitAll"}
    /\ \E i \in DOMAIN MODELS :
          /\ tpc[MODELS[i].provider] = "unborn"
          /\ \A j \in 1..(i - 1) : tpc[MODELS[j].provider] = "done"
          /\ tpc' = [tpc EXCEPT ![MODELS[i].provider] = "generating"]
          /\ genCalls' = [genCalls EXCEPT ![MODELS[i].provider] = @ + 1]
    /\ results' = IF hpc = "started" THEN <<>> ELSE results
    /\ hpc' = "waitAll"
    /\ UNCHANGED clientVars
    /\ UNCHANGED agentVars
    /\ UNCHANGED reqVars
    /\ UNCHANGED durVars
    /\ UNCHANGED <<wsVars, chatVars>>
    /\ UNCHANGED <<settled, stream, judgeCalls, judgePrompt, judgeAnswer, conn, writeCalls,
                   genReply>>

\* route.ts:69-113: results = [], MODELS.map starts every task up to its first
\* await (the generateText call inside generateStory), then Promise.all is awaited
FanOut ==
    /\ hpc = "started"
    /\ results' = <<>>
    /\ tpc' = [p \in ModelProviders |-> "generating"]
    /\ genCalls' = [p \in ModelProviders |-> genCalls[p] + 1]
    /\ hpc' = "waitAll"
    /\ UNCHANGED clientVars
    /\ UNCHANGED agentVars
    /\ UNCHANGED reqVars
    /\ UNCHANGED durVars
    /\ UNCHANGED <<wsVars, chatVars>>
    /\ UNCHANGED <<settled, stream, judgeCalls, judgePrompt, judgeAnswer, conn, writeCalls,
                   genReply>>

\* a task that stores its result at the place of its provider in MODELS
StoryFulfilled_InModelsOrder(p, text, usage, elapsed) ==
    /\ tpc[p] = "generating"
    /\ LET result == generateStory(ConfigOf(p), text, usage, elapsed)
       IN  /\ results' = IF p = MODELS[1].provider
                            THEN <<result>> \o results
                            ELSE Append(results, result)
           /\ Write(StoryEvent(result))
    /\ genReply' = [genReply EXCEPT ![p] = [text |-> text, usage |-> usage]]
    /\ settled' = [settled EXCEPT ![p] = "fulfilled"]
    /\ tpc' = [tpc EXCEPT ![p] = IF WriteThrows THEN "writeFailed" ELSE "writing"]
    /\ UNCHANGED clientVars
    /\ UNCHANGED agentVars
    /\ UNCHANGED reqVars
    /\ UNCHANGED durVars
    /\ UNCHANGED <<wsVars, chatVars>>
    /\ UNCHANGED <<hpc, judgeCalls, judgePrompt, judgeAnswer, conn, genCalls>>

\* route.ts:74-88: generateStory fulfilled
StoryFulfilled(p, text, usage, elapsed) ==
    /\ tpc[p] = "generating"
    /\ LET result == generateStory(ConfigOf(p), text, usage, elapsed)
       IN  /\ results' = Append(results, result)
           /\ Write(StoryEvent(result))
    /\ genReply' = [genReply EXCEPT ![p] = [text |-> text, usage |-> usage]]
    /\ settled' = [settled EXCEPT ![p] = "fulfilled"]
    /\ tpc' = [tpc EXCEPT ![p] = IF WriteThrows THEN "writeFailed" ELSE "writing"]
    /\ UNCHANGED clientVars
    /\ UNCHANGED agentVars
    /\ UNCHANGED reqVars
    /\ UNCHANGED durVars
    /\ UNCHANGED <<wsVars, chatVars>>
    /\ UNCHANGED <<hpc, judgeCalls, judgePrompt, judgeAnswer, conn, genCalls>>

\* a catch block that also records a result for the failed provider
StoryRejected_PushesResult(p, error) ==
    /\ tpc[p] = "generating"
    /\ results' = Append(results, generateStory(ConfigOf(p), "", NoUsage, 0))
    /\ Write(ProviderErrorEvent(ConfigOf(p), messageOf(error)))
    /\ settled' = [settled EXCEPT ![p] = "rejected"]
    /\ tpc' = [tpc EXCEPT ![p] = "writing"]
    /\ UNCHANGED clientVars
    /\ UNCHANGED agentVars
    /\ UNCHANGED reqVars
    /\ UNCHANGED durVars
    /\ UNCHANGED <<wsVars, chatVars>>
    /\ UNCHANGED <<hpc, judgeCalls, judgePrompt, judgeAnswer, conn, genCalls, genReply>>

\* a catch block that calls the provider a second time before giving up
StoryRejected_Retries(p, error) ==
    /\ tpc[p] = "generating"
    /\ IF genCalls[p] < 2
         THEN /\ genCalls' = [genCalls EXCEPT ![p] = @ + 1]
              /\ UNCHANGED <<stream, writeCalls, settled, tpc>>
         ELSE /\ Write(ProviderErrorEvent(ConfigOf(p), messageOf(error)))
              /\ settled' = [settled EXCEPT ![p] = "rejected"]
              /\ tpc' = [tpc EXCEPT ![p] = "writing"]
              /\ UNCHANGED genCalls
    /\ UNCHANGED clientVars
    /\ UNCHANGED agentVars
    /\ UNCHANGED reqVars
    /\ UNCHANGED durVars
    /\ UNCHANGED <<wsVars, chatVars>>
    /\ UNCHANGED <<hpc, results, judgeCalls, judgePrompt, judgeAnswer, conn, genReply>>

\* route.ts:94-109: generateStory rejected
StoryRejected(p, error) ==
    /\ tpc[p] = "generating"
    /\ Write(ProviderErrorEvent(ConfigOf(p), messageOf(error)))
    /\ settled' = [settled EXCEPT ![p] = "rejected"]
    /\ tpc' = [tpc EXCEPT ![p] = IF WriteThrows THEN "rejected" ELSE "writing"]
    /\ UNCHANGED clientVars
    /\ UNCHANGED agentVars
    /\ UNCHANGED reqVars
    /\ UNCHANGED durVars
    /\ UNCHANGED <<wsVars, chatVars>>
    /\ UNCHANGED <<hpc, results, judgeCalls, judgePrompt, judgeAnswer, conn, genCalls,
                   genReply>>

\* route.ts:88-93, 109-111: the awaited write returns and the task's promise fulfils
TaskDone(p) ==
    /\ tpc[p] = "writing"
    /\ tpc' = [tpc EXCEPT ![p] = "done"]
    /\ UNCHANGED clientVars
    /\ UNCHANGED agentVars
    /\ UNCHANGED reqVars
    /\ UNCHANGED durVars
    /\ UNCHANGED <<wsVars, chatVars>>
    /\ UNCHANGED <<hpc, settled, results, stream, judgeCalls, judgePrompt, judgeAnswer, conn,
                   writeCalls, genCalls, genReply>>

\* a wait that ends with the first task to finish
AnyFulfilled == \E p \in ModelProviders : tpc[p] = "done"

\* Promise.all(promises) fulfils when every promise has fulfilled
AllFulfilled == \A p \in ModelProviders : tpc[p] = "done"

\* a judging event written without awaiting the tasks
SendJudging_NoAwait ==
    /\ hpc = "waitAll"
    /\ Write(JudgingEvent)
    /\ hpc' = "judging"
    /\ UNCHANGED clientVars
    /\ UNCHANGED agentVars
    /\ UNCHANGED reqVars
    /\ UNCHANGED durVars
    /\ UNCHANGED <<wsVars, chatVars>>
    /\ UNCHANGED <<tpc, settled, results, judgeCalls, judgePrompt, judgeAnswer, conn,
                   genCalls, genReply>>

\* route.ts:113-122
SendJudging ==
    /\ hpc = "waitAll"
    /\ AllFulfilled
    /\ Write(JudgingEvent)
    /\ hpc' = IF WriteThrows THEN "threw" ELSE "judging"
    /\ UNCHANGED clientVars
    /\ UNCHANGED agentVars
    /\ UNCHANGED reqVars
    /\ UNCHANGED durVars
    /\ UNCHANGED <<wsVars, chatVars>>
    /\ UNCHANGED <<tpc, settled, results, judgeCalls, judgePrompt, judgeAnswer, conn,
                   genCalls, genReply>>

\* route.ts:124-129: the generateObject call
CallJudge ==
    /\ hpc = "judging"
    /\ judgePrompt' = getJudgePrompt(results, FIXED_TONE, FIXED_PROMPT)
    /\ judgeCalls' = judgeCalls + 1
    /\ hpc' = "awaitJudge"
    /\ UNCHANGED clientVars
    /\ UNCHANGED agentVars
    /\ UNCHANGED reqVars
    /\ UNCHANGED durVars
    /\ UNCHANGED <<wsVars, chatVars>>
    /\ UNCHANGED <<tpc, settled, results, stream, judgeAnswer, conn, writeCalls, genCalls,
                   genReply>>

\* route.ts:125-153: the judge model answers; generateObject validates the answer
\* against JudgmentSchema and throws when it does not match
JudgeAnswered(answer) ==
    /\ hpc = "awaitJudge"
    /\ judgeAnswer' = answer
    /\ IF JudgmentSchema(answer)
         THEN /\ Write(CompleteEvent(answer))
              /\ hpc' = IF WriteThrows THEN "completeFailed" ELSE "sentComplete"
         ELSE /\ Write(JudgeErrorEvent("No object generated"))
              /\ hpc' = IF WriteThrows THEN "threw" ELSE "sentJudgeError"
    /\ UNCHANGED clientVars
    /\ UNCHANGED agentVars
    /\ UNCHANGED reqVars
    /\ UNCHANGED durVars
    /\ UNCHANGED <<wsVars, chatVars>>
    /\ UNCHANGED <<tpc, settled, results, judgeCalls, judgePrompt, conn, genCalls, genReply>>

\* a catch block that only logs
JudgeThrew_Swallowed(error) ==
    /\ hpc = "awaitJudge"
    /\ judgeAnswer' = [threw |-> error]
    /\ hpc' = "sentJudgeError"
    /\ UNCHANGED clientVars
    /\ UNCHANGED agentVars
    /\ UNCHANGED reqVars
    /\ UNCHANGED durVars
    /\ UNCHANGED <<wsVars, chatVars>>
    /\ UNCHANGED <<tpc, settled, results, stream, judgeCalls, judgePrompt, conn, writeCalls,
                   genCalls, genReply>>

\* route.ts:144-153: the generateObject call itself fails
JudgeThrew(error) ==
    /\ hpc = "awaitJudge"
    /\ judgeAnswer' = [threw |-> error]
    /\ Write(JudgeErrorEvent(messageOf(error)))
    /\ hpc' = IF WriteThrows THEN "threw" ELSE "sentJudgeError"
    /\ UNCHANGED clientVars
    /\ UNCHANGED agentVars
    /\ UNCHANGED reqVars
    /\ UNCHANGED durVars
    /\ UNCHANGED <<wsVars, chatVars>>
    /\ UNCHANGED <<tpc, settled, results, judgeCalls, judgePrompt, conn, genCalls, genReply>>

\* route.ts:154: the handler returns and the stream is closed
HandlerReturn ==
    /\ hpc \in {"sentComplete", "sentJudgeError"}
    /\ hpc' = "closed"
    /\ UNCHANGED clientVars
    /\ UNCHANGED agentVars
    /\ UNCHANGED reqVars
    /\ UNCHANGED durVars
    /\ UNCHANGED <<wsVars, chatVars>>
    /\ UNCHANGED <<tpc, settled, results, stream, judgeCalls, judgePrompt, judgeAnswer, conn,
                   writeCalls, genCalls, genReply>>

\* the client goes away while the handler runs (ModelArena.tsx:124-128, 233-235:
\* eventSource.close(); or the network fails)
ClientDisconnect(mode) ==
    /\ conn = "open"
    /\ hpc \notin {"accepted", "closed", "threw"}
    /\ conn' = mode
    /\ UNCHANGED clientVars
    /\ UNCHANGED agentVars
    /\ UNCHANGED reqVars
    /\ UNCHANGED durVars
    /\ UNCHANGED <<wsVars, chatVars>>
    /\ UNCHANGED <<hpc, tpc, settled, results, stream, judgeCalls, judgePrompt, judgeAnswer,
                   writeCalls, genCalls, genReply>>

\* route.ts:88-109: the awaited story write rejects inside the try block, so
\* the task's catch block runs and writes an error event for the provider
TaskCatchWriteFailure(p) ==
    /\ tpc[p] = "writeFailed"
    /\ Write(ProviderErrorEvent(ConfigOf(p), messageOf(WriteError)))
    /\ tpc' = [tpc EXCEPT ![p] = IF WriteThrows THEN "rejected" ELSE "writing"]
    /\ UNCHANGED clientVars
    /\ UNCHANGED agentVars
    /\ UNCHANGED reqVars
    /\ UNCHANGED durVars
    /\ UNCHANGED <<wsVars, chatVars>>
    /\ UNCHANGED <<hpc, settled, results, judgeCalls, judgePrompt, judgeAnswer, conn,
                   genCalls, genReply>>

\* route.ts:113: Promise.all(promises) rejects as soon as one promise has
\* rejected; the await is in no try block, so the handler's own promise rejects
PromiseAllRejected ==
    /\ hpc = "waitAll"
    /\ \E p \in ModelProviders : tpc[p] = "rejected"
    /\ hpc' = "threw"
    /\ UNCHANGED clientVars
    /\ UNCHANGED agentVars
    /\ UNCHANGED reqVars
    /\ UNCHANGED durVars
    /\ UNCHANGED <<wsVars, chatVars>>
    /\ UNCHANGED <<tpc, settled, results, stream, judgeCalls, judgePrompt, judgeAnswer, conn,
                   writeCalls, genCalls, genReply>>

\* route.ts:133-153: the awaited complete write rejects inside the try block,
\* so the catch block of the judging phase runs and writes an error event
CatchCompleteWriteFailure ==
    /\ hpc = "completeFailed"
    /\ Write(JudgeErrorEvent(messageOf(WriteError)))
    /\ hpc' = IF WriteThrows THEN "threw" ELSE "sentJudgeError"
    /\ UNCHANGED clientVars
    /\ UNCHANGED agentVars
    /\ UNCHANGED reqVars
    /\ UNCHANGED durVars
    /\ UNCHANGED <<wsVars, chatVars>>
    /\ UNCHANGED <<tpc, settled, results, judgeCalls, judgePrompt, judgeAnswer, conn,
                   genCalls, genReply>>

(***************************************************************************)
(* The client: ModelArena.tsx.                                             *)
(***************************************************************************)
\* null of a string-valued field
Null == "null"

\* null of state.judgment
NoJudgment == [none |-> TRUE]

\* new Map()
EmptyMap == [k \in {} |-> Null]

\* new Map(m).set(k, v)
MapSet(m, k, v) == [x \in DOMAIN m \cup {k} |-> IF x = k THEN v ELSE m[x]]

EventSources == 1..MaxRuns

\* event.data that JSON.parse cannot read
Unparsable == [unparsable |-> TRUE]

\* the payloads the server can send, as the client reads them after JSON.parse
ListProviders(list) == {list[i].provider : i \in DOMAIN list}

StoryPayloads ==
    {StoryEvent(generateStory(MODELS[i], text, NoUsage, 0)).data :
        i \in DOMAIN MODELS, text \in GenTexts}

ProviderErrorPayloads ==
    {ProviderErrorEvent(MODELS[i], "rate limited").data : i \in DOMAIN MODELS}

FatalErrorPayloads == {JudgeErrorEvent("rate limited").data}

ErrorPayloads == ProviderErrorPayloads \cup FatalErrorPayloads \cup {Unparsable}

CompletePayloads ==
    {CompleteEvent(a).data :
        a \in {b \in JudgeAnswers :
                 /\ JudgmentSchema(b)
                 /\ \A e \in Range(b.scores.creativity) : e.score = 5
                 /\ ListProviders(b.scores.creativity) = ProviderSet
                 /\ ListProviders(b.scores.engagement) = ProviderSet
                 /\ ListProviders(b.checks.toneMatch) = ProviderSet
                 /\ ListProviders(b.checks.wordCount) = ProviderSet}}

\* a test of a field the server does not send
HasProvider_WrongField(data) == "providerId" \in DOMAIN data

\* `if (data.provider)`: the field is there and is not the empty string
HasProvider(data) == "provider" \in DOMAIN data /\ data.provider # ""

\* a startArena and reset that leave the previous EventSource open
closeCurrent_LeavesOpen == readyState

\* eventSourceRef.current?.close()
closeCurrent == IF eventSourceRef = 0
                  THEN readyState
                  ELSE [readyState EXCEPT ![eventSourceRef] = "closed"]

ClientInit ==
    /\ status = "idle"
    /\ prompt = Null
    /\ tone = Null
    /\ providers = <<>>
    /\ stories = EmptyMap
    /\ errors = EmptyMap
    /\ judgment = NoJudgment
    /\ globalError = Null
    /\ eventSourceRef = 0
    /\ readyState = [e \in EventSources |-> "none"]

\* ModelArena.tsx:130-146
startArena ==
    /\ \E e \in EventSources :
          /\ readyState[e] = "none"
          /\ \A d \in EventSources : d < e => readyState[d] # "none"
          /\ readyState' = [closeCurrent EXCEPT ![e] = "connecting"]
          /\ eventSourceRef' = e
    /\ status' = "connecting"
    /\ prompt' = Null
    /\ tone' = Null
    /\ providers' = <<>>
    /\ stories' = EmptyMap
    /\ errors' = EmptyMap
    /\ judgment' = NoJudgment
    /\ globalError' = Null
    /\ UNCHANGED serverVars
    /\ UNCHANGED agentVars
    /\ UNCHANGED reqVars
    /\ UNCHANGED durVars
    /\ UNCHANGED <<wsVars, chatVars>>

\* a reset that keeps the judgment on screen
reset_KeepsJudgment ==
    /\ readyState' = closeCurrent
    /\ status' = "idle"
    /\ prompt' = Null
    /\ tone' = Null
    /\ providers' = <<>>
    /\ stories' = EmptyMap
    /\ errors' = EmptyMap
    /\ globalError' = Null
    /\ UNCHANGED <<judgment, eventSourceRef>>
    /\ UNCHANGED serverVars
    /\ UNCHANGED agentVars
    /\ UNCHANGED reqVars
    /\ UNCHANGED durVars
    /\ UNCHANGED <<wsVars, chatVars>>

\* ModelArena.tsx:233-245
reset ==
    /\ readyState' = closeCurrent
    /\ status' = "idle"
    /\ prompt' = Null
    /\ tone' = Null
    /\ providers' = <<>>
    /\ stories' = EmptyMap
    /\ errors' = EmptyMap
    /\ judgment' = NoJudgment
    /\ globalError' = Null
    /\ UNCHANGED eventSourceRef
    /\ UNCHANGED serverVars
    /\ UNCHANGED agentVars
    /\ UNCHANGED reqVars
    /\ UNCHANGED durVars
    /\ UNCHANGED <<wsVars, chatVars>>

\* ModelArena.tsx:148-150
onopen(e) ==
    /\ readyState[e] = "connecting"
    /\ readyState' = [readyState EXCEPT ![e] = "open"]
    /\ status' = "generating"
    /\ UNCHANGED <<prompt, tone, providers, stories, errors, judgment, globalError,
                   eventSourceRef>>
    /\ UNCHANGED serverVars
    /\ UNCHANGED agentVars
    /\ UNCHANGED reqVars
    /\ UNCHANGED durVars
    /\ UNCHANGED <<wsVars, chatVars>>

\* ModelArena.tsx:153-161
onStart(e, data) ==
    /\ readyState[e] = "open"
    /\ prompt' = data.prompt
    /\ tone' = data.tone
    /\ providers' = data.providers
    /\ UNCHANGED <<status, stories, errors, judgment, globalError, eventSourceRef, readyState>>
    /\ UNCHANGED serverVars
    /\ UNCHANGED agentVars
    /\ UNCHANGED reqVars
    /\ UNCHANGED durVars
    /\ UNCHANGED <<wsVars, chatVars>>

\* ModelArena.tsx:164-171
onStory(e, data) ==
    /\ readyState[e] = "open"
    /\ stories' = MapSet(stories, data.provider, data)
    /\ UNCHANGED <<status, prompt, tone, providers, errors, judgment, globalError,
                   eventSourceRef, readyState>>
    /\ UNCHANGED serverVars
    /\ UNCHANGED agentVars
    /\ UNCHANGED reqVars
    /\ UNCHANGED durVars
    /\ UNCHANGED <<wsVars, chatVars>>

\* ModelArena.tsx:174-198: an SSE event named "error", which has data
onErrorEvent(e, data) ==
    /\ readyState[e] = "open"
    /\ IF data = Unparsable
         THEN UNCHANGED <<status, errors, globalError, readyState>>
         ELSE IF HasProvider(data)
           THEN /\ errors' = MapSet(errors, data.provider, data.error)
                /\ UNCHANGED <<status, globalError, readyState>>
           ELSE /\ status' = "error"
                /\ globalError' = data.error
                /\ readyState' = [readyState EXCEPT ![e] = "closed"]
                /\ UNCHANGED errors
    /\ UNCHANGED <<prompt, tone, providers, stories, judgment, eventSourceRef>>
    /\ UNCHANGED serverVars
    /\ UNCHANGED agentVars
    /\ UNCHANGED reqVars
    /\ UNCHANGED durVars
    /\ UNCHANGED <<wsVars, chatVars>>

\* ModelArena.tsx:201-203
onJudging(e) ==
    /\ readyState[e] = "open"
    /\ status' = "judging"
    /\ UNCHANGED <<prompt, tone, providers, stories, errors, judgment, globalError,
                   eventSourceRef, readyState>>
    /\ UNCHANGED serverVars
    /\ UNCHANGED agentVars
    /\ UNCHANGED reqVars
    /\ UNCHANGED durVars
    /\ UNCHANGED <<wsVars, chatVars>>

\* a complete listener that does not close the EventSource
onComplete_LeavesOpen(e, data) ==
    /\ readyState[e] = "open"
    /\ status' = "complete"
    /\ judgment' = data.judgment
    /\ UNCHANGED <<prompt, tone, providers, stories, errors, globalError, eventSourceRef,
                   readyState>>
    /\ UNCHANGED serverVars
    /\ UNCHANGED agentVars
    /\ UNCHANGED reqVars
    /\ UNCHANGED durVars
    /\ UNCHANGED <<wsVars, chatVars>>

\* ModelArena.tsx:206-214
onComplete(e, data) ==
    /\ readyState[e] = "open"
    /\ status' = "complete"
    /\ judgment' = data.judgment
    /\ readyState' = [readyState EXCEPT ![e] = "closed"]
    /\ UNCHANGED <<prompt, tone, providers, stories, errors, globalError, eventSourceRef>>
    /\ UNCHANGED serverVars
    /\ UNCHANGED agentVars
    /\ UNCHANGED reqVars
    /\ UNCHANGED durVars
    /\ UNCHANGED <<wsVars, chatVars>>

\* ModelArena.tsx:174-176, 217-230: the connection fails. The browser first sets
\* readyState (CLOSED when it gives up, CONNECTING when it will retry) and then
\* fires an error Event without data: the "error" listener ignores it and onerror runs
onerror(e, givesUp) ==
    /\ readyState[e] \in {"connecting", "open"}
    /\ IF givesUp
         THEN /\ readyState' = [readyState EXCEPT ![e] = "closed"]
              /\ UNCHANGED <<status, globalError>>
         ELSE /\ readyState' = [readyState EXCEPT ![e] = "closed"]
              /\ IF status = "complete"
                   THEN UNCHANGED <<status, globalError>>
                   ELSE status' = "error" /\ globalError' = "Connection lost"
    /\ UNCHANGED <<prompt, tone, providers, stories, errors, judgment, eventSourceRef>>
    /\ UNCHANGED serverVars
    /\ UNCHANGED agentVars
    /\ UNCHANGED reqVars
    /\ UNCHANGED durVars
    /\ UNCHANGED <<wsVars, chatVars>>

(***************************************************************************)
(* The model-arena agent handler.                                          *)
(***************************************************************************)
\* the inputs the agent's input schema lets through
AgentInputs == {[prompt |-> FIXED_PROMPT, tone |-> t] : t \in {"whimsical", "sci-fi"}}

NoInput == [none |-> TRUE]

NoValue == [none |-> TRUE]

NoOutput == [none |-> TRUE]

\* a promise: pending, fulfilled, or rejected with a reason
Pending == [state |-> "pending"]

Fulfilled == [state |-> "fulfilled"]

Rejected(reason) == [state |-> "rejected", reason |-> reason]

\* agent.ts:30-42: the prompt judgeStories calls generateObject with
judgeStories(res, theTone, thePrompt) == getJudgePrompt(res, theTone, thePrompt)

AgentInit ==
    /\ apc = "idle"
    /\ agentInput = NoInput
    /\ agentSettled = [p \in ModelProviders |-> "unborn"]
    /\ agentValue = [p \in ModelProviders |-> NoValue]
    /\ agentAll = Pending
    /\ agentResults = <<>>
    /\ agentJudgeCalls = 0
    /\ agentJudgePrompt = NoPrompt
    /\ agentOutput = NoOutput
    /\ agentOrder = <<>>

\* agent.ts:100-112: MODELS.map calls generateStory for every config, then
\* the handler awaits Promise.all
AgentInvoke(input) ==
    /\ apc = "idle"
    /\ agentInput' = input
    /\ agentSettled' = [p \in ModelProviders |-> "pending"]
    /\ apc' = "waitAll"
    /\ UNCHANGED <<agentValue, agentAll, agentResults, agentJudgeCalls, agentJudgePrompt,
                   agentOutput, agentOrder>>
    /\ UNCHANGED <<serverVars, clientVars, reqVars>>
    /\ UNCHANGED durVars
    /\ UNCHANGED <<wsVars, chatVars>>

\* Promise.all: fulfils when every promise has fulfilled, rejects with the
\* reason of the first promise that rejects
AgentAllAfter(nowSettled, reason) ==
    IF agentAll # Pending
      THEN agentAll
      ELSE IF \E q \in ModelProviders : nowSettled[q] = "rejected"
        THEN Rejected(reason)
        ELSE IF \A q \in ModelProviders : nowSettled[q] = "fulfilled"
          THEN Fulfilled
          ELSE agentAll

\* lib.ts:37-57 called from agent.ts:111: a generateStory call fulfils
AgentStoryFulfilled(p, text, usage, elapsed) ==
    /\ agentSettled[p] = "pending"
    /\ agentSettled' = [agentSettled EXCEPT ![p] = "fulfilled"]
    /\ agentValue' = [agentValue EXCEPT ![p] = generateStory(ConfigOf(p), text, usage, elapsed)]
    /\ agentAll' = AgentAllAfter(agentSettled', NoValue)
    /\ agentOrder' = Append(agentOrder, p)
    /\ UNCHANGED <<apc, agentInput, agentResults, agentJudgeCalls, agentJudgePrompt,
                   agentOutput>>
    /\ UNCHANGED <<serverVars, clientVars, reqVars>>
    /\ UNCHANGED durVars
    /\ UNCHANGED <<wsVars, chatVars>>

\* lib.ts:37-57 called from agent.ts:111: a generateStory call rejects; nothing
\* catches it before Promise.all
AgentStoryRejected(p, error) ==
    /\ agentSettled[p] = "pending"
    /\ agentSettled' = [agentSettled EXCEPT ![p] = "rejected"]
    /\ agentValue' = [agentValue EXCEPT ![p] = [threw |-> error]]
    /\ agentAll' = AgentAllAfter(agentSettled', error)
    /\ UNCHANGED <<apc, agentInput, agentResults, agentJudgeCalls, agentJudgePrompt,
                   agentOutput, agentOrder>>
    /\ UNCHANGED <<serverVars, clientVars, reqVars>>
    /\ UNCHANGED durVars
    /\ UNCHANGED <<wsVars, chatVars>>

\* agent.ts:110-120: Promise.all fulfilled with the values in MODELS order; the
\* handler calls judgeStories, which calls generateObject
AgentCallJudge ==
    /\ apc = "waitAll"
    /\ agentAll = Fulfilled
    /\ agentResults' = [i \in DOMAIN MODELS |-> agentValue[MODELS[i].provider]]
    /\ agentJudgePrompt' = judgeStories(agentResults', agentInput.tone, agentInput.prompt)
    /\ agentJudgeCalls' = agentJudgeCalls + 1
    /\ apc' = "awaitJudge"
    /\ UNCHANGED <<agentInput, agentSettled, agentValue, agentAll, agentOutput, agentOrder>>
    /\ UNCHANGED <<serverVars, clientVars, reqVars>>
    /\ UNCHANGED durVars
    /\ UNCHANGED <<wsVars, chatVars>>

\* agent.ts:110: Promise.all rejected; the await is in no try block
AgentAllThrew ==
    /\ apc = "waitAll"
    /\ agentAll.state = "rejected"
    /\ agentOutput' = [threw |-> agentAll.reason]
    /\ apc' = "threw"
    /\ UNCHANGED <<agentInput, agentSettled, agentValue, agentAll, agentResults,
                   agentJudgeCalls, agentJudgePrompt, agentOrder>>
    /\ UNCHANGED <<serverVars, clientVars, reqVars>>
    /\ UNCHANGED durVars
    /\ UNCHANGED <<wsVars, chatVars>>

\* agent.ts:35-41, 120-127: generateObject answers; an answer that does not
\* match JudgmentSchema makes it throw, and nothing catches that
AgentJudgeAnswered(answer) ==
    /\ apc = "awaitJudge"
    /\ IF JudgmentSchema(answer)
         THEN /\ agentOutput' = [id |-> SessionId, results |-> agentResults, judgment |-> answer]
              /\ apc' = "returned"
         ELSE /\ agentOutput' = [threw |-> [isError |-> TRUE, message |-> "No object generated"]]
              /\ apc' = "threw"
    /\ UNCHANGED <<agentInput, agentSettled, agentValue, agentAll, agentResults,
                   agentJudgeCalls, agentJudgePrompt, agentOrder>>
    /\ UNCHANGED <<serverVars, clientVars, reqVars>>
    /\ UNCHANGED durVars
    /\ UNCHANGED <<wsVars, chatVars>>

\* agent.ts:35-39, 120: the generateObject call itself fails
AgentJudgeThrew(error) ==
    /\ apc = "awaitJudge"
    /\ agentOutput' = [threw |-> error]
    /\ apc' = "threw"
    /\ UNCHANGED <<agentInput, agentSettled, agentValue, agentAll, agentResults,
                   agentJudgeCalls, agentJudgePrompt, agentOrder>>
    /\ UNCHANGED <<serverVars, clientVars, reqVars>>
    /\ UNCHANGED durVars
    /\ UNCHANGED <<wsVars, chatVars>>

AgentNext ==
    \/ \E input \in AgentInputs : AgentInvoke(input)
    \/ \E p \in ModelProviders, text \in GenTexts, usage \in GenUsages, elapsed \in 0..MaxMs :
          AgentStoryFulfilled(p, text, usage, elapsed)
    \/ \E p \in ModelProviders, error \in Thrown : AgentStoryRejected(p, error)
    \/ AgentCallJudge
    \/ AgentAllThrew
    \/ \E answer \in JudgeAnswers : AgentJudgeAnswered(answer)
    \/ \E error \in Thrown : AgentJudgeThrew(error)

(***************************************************************************)
(* Concurrent /stream requests. Every request runs the handler of          *)
(* route.ts:45-155; what the outside world answers to a request is marked  *)
(* with the request's number, so that it can be told whose answer it is.   *)
(* An awaited write is taken together with the step that makes it.         *)
(***************************************************************************)
Requests == 1..MaxRequests

\* what generateText and generateObject answer to the calls of request r
TextFor(r) == "story for request " \o ToString(r)

FailureFor(r) == [isError |-> TRUE, message |-> "failure for request " \o ToString(r)]

VerdictFor(r) ==
    [ winner |-> MODELS[1].provider,
      reasoning |-> "verdict for request " \o ToString(r),
      scores |-> [creativity |-> ScoreList(ProviderSet, 5),
                  engagement |-> ScoreList(ProviderSet, 5)],
      checks |-> [toneMatch |-> BinaryList(ProviderSet, TRUE),
                  wordCount |-> BinaryList(ProviderSet, TRUE)] ]

\* a results array at module level, shared by all handlers
pushResult_ModuleLevel(all, r, result) ==
    [q \in DOMAIN all |-> [all[q] EXCEPT !.results = Append(@, result)]]

\* route.ts:69, 76: results is a const of the handler, results.push(result)
\* changes the array of the pushing request only
pushResult(all, r, result) == [all EXCEPT ![r].results = Append(@, result)]

\* stream.writeSSE on the stream of request r
writeTo(all, r, ev) == [all EXCEPT ![r].stream = writeSSE(@, ev)]

ReqInit ==
    /\ reqs = [r \in Requests |->
                 [ hpc |-> "none",
                   tpc |-> [p \in ModelProviders |-> "unborn"],
                   results |-> <<>>,
                   stream |-> <<>>,
                   judgePrompt |-> NoPrompt ]]
    /\ shared = [MODELS |-> MODELS, FIXED_PROMPT |-> FIXED_PROMPT, FIXED_TONE |-> FIXED_TONE]

\* route.ts:45-67: a request arrives and its handler writes start
ReqSendStart(r) ==
    /\ reqs[r].hpc = "none"
    /\ reqs' = [writeTo(reqs, r, StartEvent) EXCEPT ![r].hpc = "started"]
    /\ UNCHANGED shared
    /\ UNCHANGED <<serverVars, clientVars, agentVars>>
    /\ UNCHANGED durVars
    /\ UNCHANGED <<wsVars, chatVars>>

\* route.ts:69-113
ReqFanOut(r) ==
    /\ reqs[r].hpc = "started"
    /\ reqs' = [reqs EXCEPT ![r].hpc = "waitAll",
                            ![r].results = <<>>,
                            ![r].tpc = [p \in {shared.MODELS[i].provider : i \in DOMAIN shared.MODELS}
                                          |-> "generating"]]
    /\ UNCHANGED shared
    /\ UNCHANGED <<serverVars, clientVars, agentVars>>
    /\ UNCHANGED durVars
    /\ UNCHANGED <<wsVars, chatVars>>

\* route.ts:74-93
ReqStoryFulfilled(r, p) ==
    /\ reqs[r].tpc[p] = "generating"
    /\ LET result == generateStory(ConfigOf(p), TextFor(r), NoUsage, 0)
       IN  reqs' = [writeTo(pushResult(reqs, r, result), r, StoryEvent(result))
                       EXCEPT ![r].tpc[p] = "done"]
    /\ UNCHANGED shared
    /\ UNCHANGED <<serverVars, clientVars, agentVars>>
    /\ UNCHANGED durVars
    /\ UNCHANGED <<wsVars, chatVars>>

\* route.ts:94-110
ReqStoryRejected(r, p) ==
    /\ reqs[r].tpc[p] = "generating"
    /\ reqs' = [writeTo(reqs, r, ProviderErrorEvent(ConfigOf(p), messageOf(FailureFor(r))))
                   EXCEPT ![r].tpc[p] = "done"]
    /\ UNCHANGED shared
    /\ UNCHANGED <<serverVars, clientVars, agentVars>>
    /\ UNCHANGED durVars
    /\ UNCHANGED <<wsVars, chatVars>>

\* route.ts:113-129: every task is done, judging is written and the judge is called
ReqCallJudge(r) ==
    /\ reqs[r].hpc = "waitAll"
    /\ \A p \in ModelProviders : reqs[r].tpc[p] = "done"
    /\ reqs' = [writeTo(reqs, r, JudgingEvent)
                   EXCEPT ![r].hpc = "awaitJudge",
                          ![r].judgePrompt = getJudgePrompt(reqs[r].results, shared.FIXED_TONE,
                                                            shared.FIXED_PROMPT)]
    /\ UNCHANGED shared
    /\ UNCHANGED <<serverVars, clientVars, agentVars>>
    /\ UNCHANGED durVars
    /\ UNCHANGED <<wsVars, chatVars>>

\* route.ts:125-155: the judge answers or fails, the terminal event is written
\* and the handler returns
ReqJudgeSettled(r, answered) ==
    /\ reqs[r].hpc = "awaitJudge"
    /\ reqs' = [writeTo(reqs, r, IF answered
                                   THEN CompleteEvent(VerdictFor(r))
                                   ELSE JudgeErrorEvent(messageOf(FailureFor(r))))
                   EXCEPT ![r].hpc = "closed"]
    /\ UNCHANGED shared
    /\ UNCHANGED <<serverVars, clientVars, agentVars>>
    /\ UNCHANGED durVars
    /\ UNCHANGED <<wsVars, chatVars>>

RequestsNext ==
    \/ \E r \in Requests : ReqSendStart(r)
    \/ \E r \in Requests : ReqFanOut(r)
    \/ \E r \in Requests, p \in ModelProviders : ReqStoryFulfilled(r, p)
    \/ \E r \in Requests, p \in ModelProviders : ReqStoryRejected(r, p)
    \/ \E r \in Requests : ReqCallJudge(r)
    \/ \E r \in Requests, answered \in BOOLEAN : ReqJudgeSettled(r, answered)

(***************************************************************************)
(* The durable-stream route: POST /create and generateInBackground.        *)
(***************************************************************************)
MAX_STREAMS == 10

Creators == 1..MaxCreators

StreamIds == 1..MaxStreamIds

\* a generateInBackground task that has not been started
NoTask == [pc |-> "unborn", log |-> <<>>, closes |-> 0, failed |-> FALSE]

DurableInit ==
    /\ store = {}
    /\ nextId = 0
    /\ clock = 0
    /\ cpc = [c \in Creators |-> "idle"]
    /\ ctarget = [c \in Creators |-> 0]
    /\ cstart = [c \in Creators |-> 0]
    /\ bg = [id \in StreamIds |-> NoTask]

\* stream.list({ name, limit: MAX_STREAMS }): total counts every stored stream,
\* streams holds at most `limit` of them
ListPages(limit) ==
    IF Cardinality(store) <= limit
      THEN {store}
      ELSE {page \in SUBSET store : Cardinality(page) = limit}

\* route.ts:46-48: the stream of the page with the least startTime
Oldest(page) == CHOOSE s \in page : \A t \in page : s.startTime <= t.startTime

\* route.ts:44
AtCapacity(total, page) == total >= MAX_STREAMS /\ page # {}

\* route.ts:34-62: a request arrives, stream.list answers, and the handler
\* either calls stream.delete(oldest.id) or calls stream.create with the
\* current time as startTime
CreateList(c) ==
    /\ cpc[c] = "idle"
    /\ nextId + Cardinality({d \in Creators : cpc[d] # "idle"}) < MaxStreamIds
    /\ \E page \in ListPages(MAX_STREAMS) :
          IF AtCapacity(Cardinality(store), page)
            THEN /\ ctarget' = [ctarget EXCEPT ![c] = Oldest(page).id]
                 /\ cpc' = [cpc EXCEPT ![c] = "deleting"]
                 /\ UNCHANGED <<cstart, clock>>
            ELSE /\ cstart' = [cstart EXCEPT ![c] = clock + 1]
                 /\ clock' = clock + 1
                 /\ cpc' = [cpc EXCEPT ![c] = "creating"]
                 /\ UNCHANGED ctarget
    /\ UNCHANGED <<store, nextId, bg>>
    /\ UNCHANGED <<serverVars, clientVars, agentVars, reqVars>>
    /\ UNCHANGED <<wsVars, chatVars>>

\* route.ts:50-62: stream.delete answers. The stream service is not part of
\* this repository: deleting a stream that is already gone either throws,
\* which ends the request, or does nothing
CreateDelete(c, goneThrows) ==
    /\ cpc[c] = "deleting"
    /\ store' = {s \in store : s.id # ctarget[c]}
    /\ IF goneThrows /\ ~(\E s \in store : s.id = ctarget[c])
         THEN /\ cpc' = [cpc EXCEPT ![c] = "idle"]
              /\ UNCHANGED <<cstart, clock>>
         ELSE /\ cstart' = [cstart EXCEPT ![c] = clock + 1]
              /\ clock' = clock + 1
              /\ cpc' = [cpc EXCEPT ![c] = "creating"]
    /\ ctarget' = [ctarget EXCEPT ![c] = 0]
    /\ UNCHANGED <<nextId, bg>>
    /\ UNCHANGED <<serverVars, clientVars, agentVars, reqVars>>
    /\ UNCHANGED <<wsVars, chatVars>>

\* route.ts:57-106: stream.create answers, generateInBackground is started
\* up to its first await and the response is returned
CreateStream(c) ==
    /\ cpc[c] = "creating"
    /\ nextId' = nextId + 1
    /\ store' = store \cup {[id |-> nextId + 1, startTime |-> cstart[c]]}
    /\ bg' = [bg EXCEPT ![nextId + 1] = [NoTask EXCEPT !.pc = "streaming"]]
    /\ cpc' = [cpc EXCEPT ![c] = "idle"]
    /\ cstart' = [cstart EXCEPT ![c] = 0]
    /\ UNCHANGED <<clock, ctarget>>
    /\ UNCHANGED <<serverVars, clientVars, agentVars, reqVars>>
    /\ UNCHANGED <<wsVars, chatVars>>

\* route.ts:79-81: textStream yields a chunk and stream.write(chunk) is called;
\* when the write throws, the catch block runs and writes the error note
BgChunk(id, writeOk) ==
    /\ bg[id].pc = "streaming"
    /\ Cardinality({i \in DOMAIN bg[id].log : bg[id].log[i] = "chunk"}) < MaxChunks
    /\ bg' = [bg EXCEPT ![id] =
                 IF writeOk
                   THEN [@ EXCEPT !.log = Append(@, "chunk")]
                   ELSE [@ EXCEPT !.log = Append(Append(@, "chunk"), "note"),
                                  !.failed = TRUE,
                                  !.pc = "noted"]]
    /\ UNCHANGED <<store, nextId, clock, cpc, ctarget, cstart>>
    /\ UNCHANGED <<serverVars, clientVars, agentVars, reqVars>>
    /\ UNCHANGED <<wsVars, chatVars>>

\* a catch block that returns from the task
BgFail_Returns(id) ==
    /\ bg[id].pc = "streaming"
    /\ bg' = [bg EXCEPT ![id] = [@ EXCEPT !.log = Append(@, "note"),
                                          !.failed = TRUE,
                                          !.pc = "finished"]]
    /\ UNCHANGED <<store, nextId, clock, cpc, ctarget, cstart>>
    /\ UNCHANGED <<serverVars, clientVars, agentVars, reqVars>>
    /\ UNCHANGED <<wsVars, chatVars>>

\* route.ts:87-90: the generation fails, before the first chunk or after some
\* chunks; the catch block calls stream.write with the error note
BgFail(id) ==
    /\ bg[id].pc = "streaming"
    /\ bg' = [bg EXCEPT ![id] = [@ EXCEPT !.log = Append(@, "note"),
                                          !.failed = TRUE,
                                          !.pc = "noted"]]
    /\ UNCHANGED <<store, nextId, clock, cpc, ctarget, cstart>>
    /\ UNCHANGED <<serverVars, clientVars, agentVars, reqVars>>
    /\ UNCHANGED <<wsVars, chatVars>>

\* route.ts:79-93: textStream ends (try block done), or the write of the error
\* note has settled (catch block done): the finally block calls stream.close()
BgFinally(id) ==
    /\ bg[id].pc \in {"streaming", "noted"}
    /\ bg' = [bg EXCEPT ![id] = [@ EXCEPT !.closes = @ + 1, !.pc = "closing"]]
    /\ UNCHANGED <<store, nextId, clock, cpc, ctarget, cstart>>
    /\ UNCHANGED <<serverVars, clientVars, agentVars, reqVars>>
    /\ UNCHANGED <<wsVars, chatVars>>

\* route.ts:92-94: the awaited close settles and the task ends
BgEnd(id) ==
    /\ bg[id].pc = "closing"
    /\ bg' = [bg EXCEPT ![id] = [@ EXCEPT !.pc = "finished"]]
    /\ UNCHANGED <<store, nextId, clock, cpc, ctarget, cstart>>
    /\ UNCHANGED <<serverVars, clientVars, agentVars, reqVars>>
    /\ UNCHANGED <<wsVars, chatVars>>

BgNext ==
    \/ \E id \in StreamIds, writeOk \in BOOLEAN : BgChunk(id, writeOk)
    \/ \E id \in StreamIds : BgFail(id)
    \/ \E id \in StreamIds : BgFinally(id)
    \/ \E id \in StreamIds : BgEnd(id)

\* route.ts:34-62, for one of the first MaxSummaries requests
SummaryList(c) ==
    /\ nextId + Cardinality({d \in Creators : cpc[d] # "idle"}) < MaxSummaries
    /\ CreateList(c)

\* the ids of the streams these requests create
SummaryIds == 1..MaxSummaries

\* a few summaries, far below MAX_STREAMS, with their background tasks
SummaryNext ==
    \/ \E c \in Creators : SummaryList(c)
    \/ \E c \in Creators : CreateStream(c)
    \/ BgNext

RotateNext ==
    \/ \E c \in Creators : CreateList(c)
    \/ \E c \in Creators, goneThrows \in BOOLEAN : CreateDelete(c, goneThrows)
    \/ \E c \in Creators : CreateStream(c)

\* ---------------------------------------------------------------------------
\* The WebSocket demo component. Every callback runs to completion; the
\* browser's tasks (a click, a timer, a socket event) interleave freely.
\* onmessage, sendMessage and clearMessages only touch state messages and
\* inputValue, which no other callback reads, and are left out.
\* ---------------------------------------------------------------------------

Sockets == 1..MaxSockets

NoSocket == [readyState |-> "none", isReconnect |-> FALSE]

Constructed == {s \in Sockets : sockets[s].readyState # "none"}

\* a socket that is connecting or open
Live(s) == sockets[s].readyState \in {"CONNECTING", "OPEN"}

WsInit ==
    /\ wsRef = 0
    /\ isConnected = FALSE
    /\ isConnecting = FALSE
    /\ isReconnecting = FALSE
    /\ wasConnectedRef = FALSE
    /\ manualDisconnectRef = FALSE
    /\ reconnectTimeoutRef = 0
    /\ sockets = [s \in Sockets |-> NoSocket]
    /\ timers = <<>>
    /\ nextTimer = 0
    /\ wsMessages = <<>>

\* clearTimeout(t): a timer that has fired or was cleared is not pending any more
clearTimeout(pending, t) == SelectSeq(pending, LAMBDA x : x # t)

\* connect(isReconnect): returns early when wsRef.current is open, else
\* constructs a socket, installs its callbacks and stores it in wsRef
connect(isReconnect) ==
    IF wsRef # 0 /\ sockets[wsRef].readyState = "OPEN"
    THEN UNCHANGED <<wsRef, isConnecting, isReconnecting, manualDisconnectRef, sockets>>
    ELSE /\ Cardinality(Constructed) < MaxSockets
         /\ IF isReconnect
            THEN /\ isReconnecting' = TRUE
                 /\ UNCHANGED <<isConnecting, manualDisconnectRef>>
            ELSE /\ isConnecting' = TRUE
                 /\ manualDisconnectRef' = FALSE
                 /\ UNCHANGED isReconnecting
         /\ sockets' = [sockets EXCEPT ![Cardinality(Constructed) + 1] =
                            [readyState |-> "CONNECTING", isReconnect |-> isReconnect]]
         /\ wsRef' = Cardinality(Constructed) + 1

\* the button, while it shows Connect: onClick is () => connect()
onClickConnect ==
    /\ ~isConnected
    /\ ~isConnecting
    /\ connect(FALSE)
    /\ UNCHANGED <<isConnected, wasConnectedRef, reconnectTimeoutRef, timers, nextTimer,
                   wsMessages>>
    /\ UNCHANGED <<serverVars, clientVars, agentVars, reqVars, durVars>>
    /\ UNCHANGED chatVars

\* the timer set by ws.onclose fires: connect(true)
reconnectTimeout ==
    /\ timers # <<>>
    /\ timers' = Tail(timers)
    /\ connect(TRUE)
    /\ UNCHANGED <<isConnected, wasConnectedRef, reconnectTimeoutRef, nextTimer, wsMessages>>
    /\ UNCHANGED <<serverVars, clientVars, agentVars, reqVars, durVars>>
    /\ UNCHANGED chatVars

\* the button, while it shows Disconnect: onClick is disconnect
onClickDisconnect ==
    /\ isConnected
    /\ ~isConnecting
    /\ manualDisconnectRef' = TRUE
    /\ wasConnectedRef' = FALSE
    /\ IF reconnectTimeoutRef # 0
       THEN /\ timers' = clearTimeout(timers, reconnectTimeoutRef)
            /\ reconnectTimeoutRef' = 0
       ELSE UNCHANGED <<timers, reconnectTimeoutRef>>
    /\ sockets' = IF wsRef # 0 /\ Live(wsRef)
                  THEN [sockets EXCEPT ![wsRef].readyState = "CLOSING"]
                  ELSE sockets
    /\ wsRef' = 0
    /\ isConnected' = FALSE
    /\ isReconnecting' = FALSE
    /\ UNCHANGED <<isConnecting, nextTimer, wsMessages>>
    /\ UNCHANGED <<serverVars, clientVars, agentVars, reqVars, durVars>>
    /\ UNCHANGED chatVars

\* the open event of socket s: ws.onopen
wsOnOpen(s) ==
    /\ sockets[s].readyState = "CONNECTING"
    /\ sockets' = [sockets EXCEPT ![s].readyState = "OPEN"]
    /\ isConnected' = TRUE
    /\ isConnecting' = FALSE
    /\ isReconnecting' = FALSE
    /\ wasConnectedRef' = TRUE
    /\ wsMessages' = IF sockets[s].isReconnect
                     THEN Append(wsMessages, "Reconnected successfully")
                     ELSE wsMessages
    /\ UNCHANGED <<wsRef, manualDisconnectRef, reconnectTimeoutRef, timers, nextTimer>>
    /\ UNCHANGED <<serverVars, clientVars, agentVars, reqVars, durVars>>
    /\ UNCHANGED chatVars

\* ws.onclose of socket s; afterError when ws.onerror ran just before it in
\* the same task and set isReconnecting to false
onclose(s, afterError) ==
    /\ sockets' = [sockets EXCEPT ![s].readyState = "CLOSED"]
    /\ isConnected' = FALSE
    /\ isConnecting' = FALSE
    /\ wsRef' = 0
    /\ IF wasConnectedRef /\ ~manualDisconnectRef
       THEN /\ isReconnecting' = TRUE
            /\ wsMessages' = Append(wsMessages, "Connection lost. Reconnecting...")
            /\ nextTimer' = nextTimer + 1
            /\ timers' = Append(timers, nextTimer + 1)
            /\ reconnectTimeoutRef' = nextTimer + 1
       ELSE /\ isReconnecting' = IF afterError THEN FALSE ELSE isReconnecting
            /\ UNCHANGED <<wsMessages, nextTimer, timers, reconnectTimeoutRef>>
    /\ UNCHANGED <<wasConnectedRef, manualDisconnectRef>>

\* the close event of socket s after a clean closing handshake: ws.onclose
wsOnClose(s) ==
    /\ sockets[s].readyState \in {"OPEN", "CLOSING"}
    /\ onclose(s, FALSE)
    /\ UNCHANGED <<serverVars, clientVars, agentVars, reqVars, durVars>>
    /\ UNCHANGED chatVars

\* the connection of socket s fails: the browser fires the error event and then
\* the close event in one task, so ws.onerror and ws.onclose run back to back
wsOnError(s) ==
    /\ sockets[s].readyState \in {"CONNECTING", "OPEN", "CLOSING"}
    /\ onclose(s, TRUE)
    /\ UNCHANGED <<serverVars, clientVars, agentVars, reqVars, durVars>>
    /\ UNCHANGED chatVars

WebSocketNext ==
    \/ onClickConnect
    \/ onClickDisconnect
    \/ reconnectTimeout
    \/ \E s \in Sockets : wsOnOpen(s)
    \/ \E s \in Sockets : wsOnClose(s)
    \/ \E s \in Sockets : wsOnError(s)

\* agent.ts:31
MAX_MESSAGES == 50

\* ---------------------------------------------------------------------------
\* The chat agent. One thread state is shared by the requests of a browser
\* session. A handler gives way to other handlers while it awaits
\* generateText, a network call; the operations on ctx.thread.state are
\* taken to complete without another handler running in between, which is
\* the least interleaving any runtime allows.
\* ---------------------------------------------------------------------------

ChatSlots == 1..MaxChatSlots

ChatMessages == {"q1", "q2"}

ChatTexts == {"a1"}

IdleReq == [pc |-> "idle", message |-> "", messages |-> <<>>, turnCount |-> 0]

ChatInit ==
    /\ thread = [keys |-> {}, turnCount |-> 0, messages |-> <<>>, startedAt |-> 0]
    /\ chatReqs = [r \in ChatSlots |-> IdleReq]
    /\ chatCount = 0
    /\ turns = <<>>

\* ctx.thread.state.push(key, value, maxRecords): append, keep the last maxRecords
push(list, value, maxRecords) ==
    LET s == Append(list, value)
    IN  IF Len(s) > maxRecords THEN SubSeq(s, Len(s) - maxRecords + 1, Len(s)) ELSE s

UserMessage(content) == [role |-> "user", content |-> content]

AssistantMessage(content) == [role |-> "assistant", content |-> content]

\* agent.ts:50-53: turnCount and startedAt are set on the first request;
\* the time written is the number of the request
Initialized(now) ==
    IF "turnCount" \in thread.keys
    THEN thread
    ELSE [thread EXCEPT !.keys = @ \cup {"turnCount", "startedAt"},
                        !.turnCount = 0,
                        !.startedAt = now]

\* command "history" or "info": initialise, read messages and turnCount, return
ChatRead(command) ==
    /\ command \in {"history", "info"}
    /\ chatCount < MaxChatRequests
    /\ chatCount' = chatCount + 1
    /\ thread' = Initialized(chatCount + 1)
    /\ UNCHANGED <<chatReqs, turns>>
    /\ UNCHANGED <<serverVars, clientVars, agentVars, reqVars, durVars>>
    /\ UNCHANGED wsVars

\* command "reset": initialise, read, set messages, turnCount and startedAt, return
ChatReset ==
    /\ chatCount < MaxChatRequests
    /\ chatCount' = chatCount + 1
    /\ thread' = [Initialized(chatCount + 1) EXCEPT !.keys = @ \cup {"messages"},
                                                    !.messages = <<>>,
                                                    !.turnCount = 0,
                                                    !.startedAt = chatCount + 1]
    /\ turns' = <<>>
    /\ UNCHANGED chatReqs
    /\ UNCHANGED <<serverVars, clientVars, agentVars, reqVars, durVars>>
    /\ UNCHANGED wsVars

\* command "chat": initialise, read messages and turnCount, call generateText
ChatBegin(r, message) ==
    /\ chatReqs[r].pc = "idle"
    /\ chatCount < MaxChatRequests
    /\ chatCount' = chatCount + 1
    /\ thread' = Initialized(chatCount + 1)
    /\ chatReqs' = [chatReqs EXCEPT ![r] =
            [pc |-> "generate", message |-> message,
             messages |-> thread.messages,
             turnCount |-> Initialized(chatCount + 1).turnCount]]
    /\ UNCHANGED turns
    /\ UNCHANGED <<serverVars, clientVars, agentVars, reqVars, durVars>>
    /\ UNCHANGED wsVars

\* generateText resolves: push the user message, push the assistant message,
\* set turnCount to the turnCount read before the call plus one, return
ChatGenerated(r, text) ==
    /\ chatReqs[r].pc = "generate"
    /\ thread' = [thread EXCEPT
            !.keys = @ \cup {"messages"},
            !.messages = push(push(@, UserMessage(chatReqs[r].message), MAX_MESSAGES),
                              AssistantMessage(text), MAX_MESSAGES),
            !.turnCount = chatReqs[r].turnCount + 1]
    /\ chatReqs' = [chatReqs EXCEPT ![r] = IdleReq]
    /\ turns' = Append(turns, [message |-> chatReqs[r].message, text |-> text])
    /\ UNCHANGED chatCount
    /\ UNCHANGED <<serverVars, clientVars, agentVars, reqVars, durVars>>
    /\ UNCHANGED wsVars

\* generateText rejects: the handler throws and writes nothing
ChatGenerateThrew(r) ==
    /\ chatReqs[r].pc = "generate"
    /\ chatReqs' = [chatReqs EXCEPT ![r] = IdleReq]
    /\ UNCHANGED <<thread, chatCount, turns>>
    /\ UNCHANGED <<serverVars, clientVars, agentVars, reqVars, durVars>>
    /\ UNCHANGED wsVars

ChatNext ==
    \/ \E command \in {"history", "info"} : ChatRead(command)
    \/ ChatReset
    \/ \E r \in ChatSlots, message \in ChatMessages : ChatBegin(r, message)
    \/ \E r \in ChatSlots, text \in ChatTexts : ChatGenerated(r, text)
    \/ \E r \in ChatSlots : ChatGenerateThrew(r)

Init ==
    /\ ServerInit /\ ClientInit /\ AgentInit /\ ReqInit /\ DurableInit
    /\ WsInit /\ ChatInit

Next ==
    \/ SendStart
    \/ FanOut
    \/ \E p \in ModelProviders, text \in GenTexts, usage \in GenUsages, elapsed \in 0..MaxMs :
          StoryFulfilled(p, text, usage, elapsed)
    \/ \E p \in ModelProviders, error \in Thrown : StoryRejected(p, error)
    \/ \E p \in ModelProviders : TaskDone(p)
    \/ SendJudging
    \/ CallJudge
    \/ \E answer \in JudgeAnswers : JudgeAnswered(answer)
    \/ \E error \in Thrown : JudgeThrew(error)
    \/ HandlerReturn

Spec == Init /\ [][Next]_vars

\* the handler with a client that can go away at any point after `start`
DisconnectNext ==
    \/ Next
    \/ \E mode \in {"lostThrows", "lostSwallows"} : ClientDisconnect(mode)
    \/ \E p \in ModelProviders : TaskCatchWriteFailure(p)
    \/ PromiseAllRejected
    \/ CatchCompleteWriteFailure

DisconnectSpec == Init /\ [][DisconnectNext]_vars

AgentSpec == Init /\ [][AgentNext]_vars

RequestsSpec == Init /\ [][RequestsNext]_vars

\* the judge answers that give every provider a score and a check
ArenaAnswers ==
    {a \in JudgeAnswers :
        /\ JudgmentSchema(a)
        /\ a.winner = MODELS[1].provider
        /\ \A e \in Range(a.scores.creativity) : e.score = 5
        /\ ListProviders(a.scores.creativity) = ProviderSet
        /\ ListProviders(a.scores.engagement) = ProviderSet
        /\ ListProviders(a.checks.toneMatch) = ProviderSet
        /\ ListProviders(a.checks.wordCount) = ProviderSet}

\* a /stream request and an agent invocation served side by side
ArenaNext ==
    \/ SendStart
    \/ FanOut
    \/ \E p \in ModelProviders, text \in GenTexts : StoryFulfilled(p, text, NoUsage, 0)
    \/ \E p \in ModelProviders : StoryRejected(p, WriteError)
    \/ \E p \in ModelProviders : TaskDone(p)
    \/ SendJudging
    \/ CallJudge
    \/ \E answer \in ArenaAnswers : JudgeAnswered(answer)
    \/ JudgeThrew(WriteError)
    \/ HandlerReturn
    \/ AgentInvoke([prompt |-> FIXED_PROMPT, tone |-> FIXED_TONE])
    \/ \E p \in ModelProviders, text \in GenTexts : AgentStoryFulfilled(p, text, NoUsage, 0)
    \/ \E p \in ModelProviders : AgentStoryRejected(p, WriteError)
    \/ AgentCallJudge
    \/ AgentAllThrew
    \/ \E answer \in ArenaAnswers : AgentJudgeAnswered(answer)
    \/ AgentJudgeThrew(WriteError)

ArenaSpec == Init /\ [][ArenaNext]_vars

\* POST /create requests, with the background tasks not yet scheduled
RotateSpec == Init /\ [][RotateNext]_vars

\* the WebSocket demo component alone
WebSocketSpec == Init /\ [][WebSocketNext]_vars

\* requests to the chat agent on one thread
ChatSpec == Init /\ [][ChatNext]_vars

\* the background tasks are given to waitUntil and the calls they await settle:
\* no step of a task can be postponed for ever. A textStream is finite: a task
\* that can only wait for its stream does get its end or its failure
SummarySpec ==
    /\ Init
    /\ [][SummaryNext]_vars
    /\ \A id \in SummaryIds : WF_vars(BgFail(id) \/ BgFinally(id) \/ BgEnd(id))

ClientNext ==
    \/ startArena
    \/ reset
    \/ \E e \in EventSources : onopen(e)
    \/ \E e \in EventSources : onStart(e, StartEvent.data)
    \/ \E e \in EventSources, data \in StoryPayloads : onStory(e, data)
    \/ \E e \in EventSources, data \in ErrorPayloads : onErrorEvent(e, data)
    \/ \E e \in EventSources : onJudging(e)
    \/ \E e \in EventSources, data \in CompletePayloads : onComplete(e, data)
    \/ \E e \in EventSources, givesUp \in BOOLEAN : onerror(e, givesUp)

ClientSpec == Init /\ [][ClientNext]_vars

\* the handler's steps are continuations of the event loop and settlements of
\* calls that are assumed to settle: none of them can be postponed for ever
LiveSpec == Spec /\ WF_vars(Next)

(***************************************************************************)
(* Reading the stream.                                                     *)
(***************************************************************************)
\* the kind of an event: its name, with the two kinds of error told apart by the
\* id they are written with (route.ts:108, route.ts:151)
KindOf(e) ==
    IF e.event = "error"
      THEN (IF e.id = "judge-error" THEN "fatal-error" ELSE "provider-error")
      ELSE e.event

Indices(kinds) == {i \in DOMAIN stream : KindOf(stream[i]) \in kinds}

IsStory(e) == e.event = "story"

IsError(e) == e.event = "error"

StoriesOf(p) == {i \in DOMAIN stream : IsStory(stream[i]) /\ stream[i].data.provider = p}

ErrorsOf(p) == {i \in DOMAIN stream :
                   /\ IsError(stream[i])
                   /\ "provider" \in DOMAIN stream[i].data
                   /\ stream[i].data.provider = p}

ResultsOf(p) == {i \in DOMAIN results : results[i].provider = p}

AllSettled == \A p \in ModelProviders : settled[p] # "pending"

Succeeded == {p \in ModelProviders : settled[p] = "fulfilled"}

Failed == {p \in ModelProviders : settled[p] = "rejected"}

PastWait == hpc \notin {"accepted", "started", "waitAll"}

C3_TotalFailureSkipsJudge ==
    (AllSettled /\ Succeeded = {}) =>
        /\ Indices({"judging"}) = {}
        /\ judgeCalls = 0
        /\ Indices({"complete"}) = {}

(***************************************************************************)
(* C4: start is the first event and the only start; every story and        *)
(* per-provider error comes after start and before judging; judging comes  *)
(* after the event of every provider and before the terminal event, which  *)
(* is the last event.                                                      *)
(***************************************************************************)
C4_EventOrder ==
    /\ stream # <<>> => stream[1].event = "start"
    /\ \A i \in DOMAIN stream : stream[i].event = "start" => i = 1
    /\ \A i \in Indices({"story"}) \cup Indices({"provider-error"}) :
          /\ i > 1
          /\ \A j \in Indices({"judging"}) : i < j
    /\ \A j \in Indices({"judging"}) :
          /\ \A p \in ModelProviders : \E i \in StoriesOf(p) \cup ErrorsOf(p) : i < j
          /\ \A k \in Indices({"complete", "fatal-error"}) : j < k
    /\ Cardinality(Indices({"judging"})) <= 1
    /\ \A k \in Indices({"complete", "fatal-error"}) : k = Len(stream) /\ Indices({"judging"}) # {}

\* a finished stream whose per-provider events are not in MODELS order
C4_Witness ==
    /\ hpc = "closed"
    /\ Indices({"complete", "fatal-error"}) # {}
    /\ \E i \in StoriesOf(MODELS[2].provider) \cup ErrorsOf(MODELS[2].provider),
          j \in StoriesOf(MODELS[1].provider) \cup ErrorsOf(MODELS[1].provider) : i < j

(***************************************************************************)
(* C5: the winner carried by a complete event is a provider with an entry  *)
(* in results.                                                             *)
(***************************************************************************)
C5_WinnerSucceeded ==
    \A i \in Indices({"complete"}) :
        stream[i].data.judgment.winner \in {results[k].provider : k \in DOMAIN results}

(***************************************************************************)
(* C6: when the judge call fails there is exactly one fatal error event,   *)
(* its payload has no provider field, and there is no complete event;      *)
(* every per-provider error event carries a provider field.                *)
(***************************************************************************)
JudgeFailed ==
    /\ judgeAnswer # NoAnswer
    /\ \/ "threw" \in DOMAIN judgeAnswer
       \/ ~JudgmentSchema(judgeAnswer)

C6_FatalErrorDistinct ==
    /\ JudgeFailed =>
          /\ Cardinality(Indices({"fatal-error"})) = 1
          /\ Indices({"complete"}) = {}
    /\ \A i \in Indices({"fatal-error"}) : "provider" \notin DOMAIN stream[i].data
    /\ \A i \in Indices({"provider-error"}) :
          /\ "provider" \in DOMAIN stream[i].data
          /\ stream[i].data.provider \in Failed

C6_Witness ==
    /\ JudgeFailed
    /\ Indices({"provider-error"}) # {}
    /\ Indices({"fatal-error"}) # {}

SectionsOf(p) ==
    {i \in DOMAIN judgePrompt.stories :
        judgePrompt.stories[i].name = PROVIDER_DISPLAY_NAMES[p]}

C8_JudgePromptIsResults ==
    /\ judgeCalls > 0 =>
          /\ \A p \in Succeeded :
                /\ Cardinality(SectionsOf(p)) = 1
                /\ \A i \in SectionsOf(p), k \in StoriesOf(p) :
                      judgePrompt.stories[i].story = stream[k].data.story
          /\ \A p \in Failed : SectionsOf(p) = {}
          /\ Len(judgePrompt.stories) = Cardinality(Succeeded)
    /\ hpc \in {"awaitJudge", "sentComplete", "sentJudgeError", "closed"} => judgeCalls = 1

C8_Witness ==
    /\ judgeCalls = 1
    /\ Succeeded # {}
    /\ Failed # {}
    /\ Len(judgePrompt.stories) = 1

(***************************************************************************)
(* C9: a judgment carried by a complete event names, in each of its score  *)
(* lists and check lists, exactly the providers present in results.        *)
(***************************************************************************)
C9_JudgmentCoversResults ==
    \A i \in Indices({"complete"}) :
        LET j == stream[i].data.judgment
            judged == {results[k].provider : k \in DOMAIN results}
        IN  /\ ListProviders(j.scores.creativity) = judged
            /\ ListProviders(j.scores.engagement) = judged
            /\ ListProviders(j.checks.toneMatch) = judged
            /\ ListProviders(j.checks.wordCount) = judged

(***************************************************************************)
(* C10: every request reaches a terminal event, and exactly one: complete  *)
(* or the fatal error, never both; complete carries the judge's judgment.  *)
(***************************************************************************)
C10_ExactlyOneTerminal ==
    /\ <>(hpc = "closed" /\ Cardinality(Indices({"complete", "fatal-error"})) = 1)
    /\ [](Cardinality(Indices({"complete", "fatal-error"})) <= 1)
    /\ [](\A i \in Indices({"complete"}) :
             /\ "winner" \in DOMAIN judgeAnswer
             /\ stream[i].data.judgment.winner = judgeAnswer.winner
             /\ stream[i].data.judgment.scores = judgeAnswer.scores
             /\ stream[i].data.judgment.checks = judgeAnswer.checks)

C10_Witness ==
    /\ hpc = "closed"
    /\ Indices({"fatal-error"}) # {}
    /\ Failed # {}
    /\ Succeeded # {}

(***************************************************************************)
(* C11: once the handler has called writeSSE with its terminal event       *)
(* (complete or the fatal error), it calls writeSSE with no further event, *)
(* also when the write of complete fails.                                  *)
(***************************************************************************)
C11_NothingAfterTerminal ==
    \A i \in DOMAIN writeCalls :
        KindOf(writeCalls[i]) \in {"complete", "fatal-error"} => i = Len(writeCalls)

(***************************************************************************)
(* C12: after the client has disconnected, no provider task ends with a    *)
(* rejected promise and the handler does not end with an exception that    *)
(* leaves it uncaught, in the provider tasks, at Promise.all or in the     *)
(* judging phase.                                                          *)
(***************************************************************************)
C12_DisconnectHandled ==
    conn # "open" =>
        /\ \A p \in ModelProviders : tpc[p] # "rejected"
        /\ hpc # "threw"

(***************************************************************************)
(* C13: whenever some provider's call has settled or some per-provider     *)
(* event has been written, the call of every provider of MODELS has        *)
(* already been started.                                                   *)
(***************************************************************************)
C13_AllIssuedFirst ==
    (\E p \in ModelProviders :
        \/ settled[p] # "pending"
        \/ StoriesOf(p) \cup ErrorsOf(p) # {}
        \/ genReply[p] # NoReply)
      => \A q \in ModelProviders : genCalls[q] >= 1 /\ tpc[q] # "unborn"

\* one call has settled while another one, already started, is still pending
C13_Witness ==
    \E p, q \in ModelProviders :
        /\ settled[p] # "pending"
        /\ settled[q] = "pending"
        /\ genCalls[q] = 1
        /\ tpc[q] = "generating"

(***************************************************************************)
(* C14: per request, generateText is called exactly once for each provider *)
(* of MODELS, also when the call fails, and generateObject is called at    *)
(* most once, also when it fails.                                          *)
(***************************************************************************)
C14_SingleAttempt ==
    /\ \A p \in ModelProviders :
          /\ genCalls[p] <= 1
          /\ hpc \notin {"accepted", "started"} => genCalls[p] = 1
    /\ judgeCalls <= 1
    /\ JudgeFailed => judgeCalls = 1

\* a finished request in which a provider failed and the judge failed
C14_Witness ==
    /\ hpc = "closed"
    /\ Failed # {}
    /\ JudgeFailed
    /\ \A p \in ModelProviders : genCalls[p] = 1
    /\ judgeCalls = 1

(***************************************************************************)
(* C17: the token count of a result is the usage total the provider        *)
(* reported when there is usage metadata, otherwise the length of the      *)
(* generated text divided by 4; it is a non-negative integer.              *)
(***************************************************************************)
C17_TokensUsageOrEstimate ==
    \A i \in DOMAIN results :
        LET reply == genReply[results[i].provider]
        IN  /\ results[i].tokens \in Nat
            /\ results[i].tokens = IF reply.usage # NoUsage
                                     THEN reply.usage
                                     ELSE Len(reply.text) \div 4

\* as C17, with 0 as the count when there is no usage metadata
C17_TokensUsageOrZero ==
    \A i \in DOMAIN results :
        LET reply == genReply[results[i].provider]
        IN  /\ results[i].tokens \in Nat
            /\ results[i].story = reply.text
            /\ results[i].tokens = IF reply.usage # NoUsage THEN reply.usage ELSE 0

\* one result with a reported usage and one without
C17_Witness ==
    \E i, k \in DOMAIN results :
        /\ genReply[results[i].provider].usage = NoUsage
        /\ genReply[results[k].provider].usage = MaxTokens
        /\ results[i].story # ""

(***************************************************************************)
(* C18: every score of a judgment carried by a complete event lies in      *)
(* [0, 1], that is in 0..10 tenths; an answer with a score outside the     *)
(* range ends in a judge failure.                                          *)
(***************************************************************************)
C18_ScoresInRange ==
    \A i \in Indices({"complete"}) :
        \A e \in Range(stream[i].data.judgment.scores.creativity)
                  \cup Range(stream[i].data.judgment.scores.engagement) :
            e.score \in 0..10

(***************************************************************************)
(* C19: the start event lists exactly the providers of MODELS, in the      *)
(* order of MODELS, and every later story or per-provider error event      *)
(* names a provider of that list.                                          *)
(***************************************************************************)
C19_StartListsProviders ==
    stream # <<>> =>
        LET list == stream[1].data.providers
        IN  /\ stream[1].event = "start"
            /\ Len(list) = Len(MODELS)
            /\ \A i \in DOMAIN MODELS :
                  /\ list[i].provider = MODELS[i].provider
                  /\ list[i].model = MODELS[i].model
            /\ \A k \in Indices({"story", "provider-error"}) :
                  k > 1 /\ stream[k].data.provider \in ListProviders(list)

\* a stream with start, a story of the last provider and an error of the first
C19_Witness ==
    /\ StoriesOf(MODELS[Len(MODELS)].provider) # {}
    /\ ErrorsOf(MODELS[1].provider) # {}
    /\ stream[1].event = "start"

(***************************************************************************)
(* C16: in the agent handler one provider's failure does not block the     *)
(* judgment: when every call has settled and some provider succeeded, the  *)
(* handler has failed only if the judge was run and failed.                *)
(***************************************************************************)
AgentSucceeded == {p \in ModelProviders : agentSettled[p] = "fulfilled"}

AgentFailed == {p \in ModelProviders : agentSettled[p] = "rejected"}

C16_AgentJudgesPartialResults ==
    (apc = "threw" /\ AgentSucceeded # {} /\ AgentSucceeded \cup AgentFailed = ModelProviders)
        => agentJudgeCalls = 1

(***************************************************************************)
(* C15: concurrent requests are independent. Whatever was answered for one *)
(* request appears only in that request's results, events and judge        *)
(* prompt; a step of one request changes nothing of another request; and   *)
(* MODELS, the fixed prompt and the fixed tone stay as they are.           *)
(***************************************************************************)
OwnEvent(r, e) ==
    CASE KindOf(e) = "story" -> e.data.story = TextFor(r)
      [] KindOf(e) = "provider-error" -> e.data.error = messageOf(FailureFor(r))
      [] KindOf(e) = "fatal-error" -> e = JudgeErrorEvent(messageOf(FailureFor(r)))
      [] KindOf(e) = "complete" -> e.data.judgment.reasoning = VerdictFor(r).reasoning
      [] OTHER -> TRUE

C15_SessionsIndependent ==
    /\ [](\A r \in Requests :
             /\ \A i \in DOMAIN reqs[r].results : reqs[r].results[i].story = TextFor(r)
             /\ Len(reqs[r].results) <= Len(MODELS)
             /\ \A i \in DOMAIN reqs[r].stream : OwnEvent(r, reqs[r].stream[i])
             /\ \A i \in DOMAIN reqs[r].judgePrompt.stories :
                   reqs[r].judgePrompt.stories[i].story = TextFor(r))
    /\ [](shared = [MODELS |-> MODELS, FIXED_PROMPT |-> FIXED_PROMPT,
                    FIXED_TONE |-> FIXED_TONE])
    /\ [][\A r \in Requests :
              reqs'[r] # reqs[r] => \A q \in Requests \ {r} : reqs'[q] = reqs[q]]_vars

\* two requests in flight at once, each with a result, one of them with a failure
C15_Witness ==
    \E r, q \in Requests :
        /\ r # q
        /\ reqs[r].hpc = "waitAll" /\ reqs[q].hpc = "awaitJudge"
        /\ reqs[r].results # <<>> /\ reqs[q].results # <<>>
        /\ Len(reqs[q].judgePrompt.stories) = 1
        /\ \E i \in DOMAIN reqs[q].stream : KindOf(reqs[q].stream[i]) = "provider-error"

(***************************************************************************)
(* JSON.stringify on the server and JSON.parse on the client. A JSON text  *)
(* is kept as its syntax tree: scalars tagged with their kind, arrays as   *)
(* sequences, objects as sequences of members in the order written.        *)
(***************************************************************************)
\* NaN, Infinity and -Infinity: numbers that JSON cannot write
NotANumber == -2

JsonNull == [t |-> "null"]

\* what reading a member that is not there gives
JsonUndefined == [t |-> "undefined"]

JsonString(v) == [t |-> "string", v |-> v]

\* a number that turns into the empty member when it is 0
JsonNumber_DropsZero(n) == IF n = 0 THEN JsonUndefined ELSE [t |-> "number", v |-> n]

\* JSON.stringify writes a non-finite number as null
JsonNumber(n) == IF n = NotANumber THEN JsonNull ELSE [t |-> "number", v |-> n]

JsonBoolean(b) == [t |-> "boolean", v |-> b]

JsonArray(items) == [t |-> "array", items |-> items]

\* JSON.stringify leaves out the members whose value is undefined
JsonObject(members) ==
    [t |-> "object", members |-> SelectSeq(members, LAMBDA m : m.v.t # "undefined")]

\* data.key after JSON.parse: the last member with that key
Member(j, key) ==
    LET at == {i \in DOMAIN j.members : j.members[i].k = key}
    IN  IF at = {}
          THEN JsonUndefined
          ELSE j.members[CHOOSE i \in at : \A k \in at : k <= i].v

HasMember(j, key) == \E i \in DOMAIN j.members : j.members[i].k = key

ParseString(j) == IF j.t = "string" THEN j.v ELSE Null

ParseNumber(j) == IF j.t = "number" THEN j.v ELSE NotANumber

ParseBoolean(j) == j.t = "boolean" /\ j.v

\* route.ts:79-86 and ModelArena.tsx:165
StringifyStory(data) ==
    JsonObject(<< [k |-> "provider", v |-> JsonString(data.provider)],
                  [k |-> "displayName", v |-> JsonString(data.displayName)],
                  [k |-> "model", v |-> JsonString(data.model)],
                  [k |-> "story", v |-> JsonString(data.story)],
                  [k |-> "generationMs", v |-> JsonNumber(data.generationMs)],
                  [k |-> "tokens", v |-> JsonNumber(data.tokens)] >>)

ParseStory(j) ==
    [ provider |-> ParseString(Member(j, "provider")),
      displayName |-> ParseString(Member(j, "displayName")),
      model |-> ParseString(Member(j, "model")),
      story |-> ParseString(Member(j, "story")),
      generationMs |-> ParseNumber(Member(j, "generationMs")),
      tokens |-> ParseNumber(Member(j, "tokens")) ]

\* route.ts:103-107, route.ts:150 and ModelArena.tsx:178
StringifyError(data) ==
    IF "provider" \in DOMAIN data
      THEN JsonObject(<< [k |-> "provider", v |-> JsonString(data.provider)],
                         [k |-> "displayName", v |-> JsonString(data.displayName)],
                         [k |-> "error", v |-> JsonString(data.error)] >>)
      ELSE JsonObject(<< [k |-> "error", v |-> JsonString(data.error)] >>)

ParseError(j) ==
    IF HasMember(j, "provider")
      THEN [ provider |-> ParseString(Member(j, "provider")),
             displayName |-> ParseString(Member(j, "displayName")),
             error |-> ParseString(Member(j, "error")) ]
      ELSE [ error |-> ParseString(Member(j, "error")) ]

\* the elements of scores.creativity and scores.engagement
StringifyScores(list) ==
    JsonArray([i \in DOMAIN list |->
        JsonObject(<< [k |-> "provider", v |-> JsonString(list[i].provider)],
                      [k |-> "score", v |-> JsonNumber(list[i].score)],
                      [k |-> "reason", v |-> JsonString(list[i].reason)] >>)])

ParseScores(j) ==
    [i \in DOMAIN j.items |->
        [ provider |-> ParseString(Member(j.items[i], "provider")),
          score |-> ParseNumber(Member(j.items[i], "score")),
          reason |-> ParseString(Member(j.items[i], "reason")) ]]

\* the elements of checks.toneMatch and checks.wordCount
StringifyChecks(list) ==
    JsonArray([i \in DOMAIN list |->
        JsonObject(<< [k |-> "provider", v |-> JsonString(list[i].provider)],
                      [k |-> "passed", v |-> JsonBoolean(list[i].passed)],
                      [k |-> "reason", v |-> JsonString(list[i].reason)] >>)])

ParseChecks(j) ==
    [i \in DOMAIN j.items |->
        [ provider |-> ParseString(Member(j.items[i], "provider")),
          passed |-> ParseBoolean(Member(j.items[i], "passed")),
          reason |-> ParseString(Member(j.items[i], "reason")) ]]

\* route.ts:135-141 and ModelArena.tsx:207
StringifyComplete(data) ==
    JsonObject(<<
        [k |-> "id", v |-> JsonString(data.id)],
        [k |-> "judgment", v |-> JsonObject(<<
            [k |-> "winner", v |-> JsonString(data.judgment.winner)],
            [k |-> "reasoning", v |-> JsonString(data.judgment.reasoning)],
            [k |-> "scores", v |-> JsonObject(<<
                [k |-> "creativity", v |-> StringifyScores(data.judgment.scores.creativity)],
                [k |-> "engagement", v |-> StringifyScores(data.judgment.scores.engagement)] >>)],
            [k |-> "checks", v |-> JsonObject(<<
                [k |-> "toneMatch", v |-> StringifyChecks(data.judgment.checks.toneMatch)],
                [k |-> "wordCount", v |-> StringifyChecks(data.judgment.checks.wordCount)] >>)],
            [k |-> "winnerDisplayName", v |-> JsonString(data.judgment.winnerDisplayName)] >>)] >>)

ParseComplete(j) ==
    LET jj == Member(j, "judgment")
    IN  [ id |-> ParseString(Member(j, "id")),
          judgment |->
            [ winner |-> ParseString(Member(jj, "winner")),
              reasoning |-> ParseString(Member(jj, "reasoning")),
              scores |-> [creativity |-> ParseScores(Member(Member(jj, "scores"), "creativity")),
                          engagement |-> ParseScores(Member(Member(jj, "scores"), "engagement"))],
              checks |-> [toneMatch |-> ParseChecks(Member(Member(jj, "checks"), "toneMatch")),
                          wordCount |-> ParseChecks(Member(Member(jj, "checks"), "wordCount"))],
              winnerDisplayName |-> ParseString(Member(jj, "winnerDisplayName")) ] ]

C22_StatusMatchesFields ==
    /\ []((globalError # Null) <=> (status = "error"))
    /\ []((judgment # NoJudgment) <=> (status = "complete"))
    /\ [][(startArena \/ reset) =>
              /\ stories' = EmptyMap
              /\ errors' = EmptyMap
              /\ judgment' = NoJudgment
              /\ globalError' = Null]_vars

\* a second run was started after a run that ended with a fatal error
C22_Witness ==
    /\ status = "error"
    /\ globalError # Null
    /\ eventSourceRef = MaxRuns
    /\ DOMAIN stories # {}

(***************************************************************************)
(* C23: once status is "complete", status, judgment, stories and           *)
(* globalError change only through startArena or reset: no stream event    *)
(* and no connection error of the run changes them.                        *)
(***************************************************************************)
C23_CompleteIsFinal ==
    [][status = "complete" =>
          \/ startArena
          \/ reset
          \/ /\ status' = status
             /\ judgment' = judgment
             /\ stories' = stories
             /\ globalError' = globalError]_vars

\* a completed run whose EventSource the complete listener has closed
C23_Witness ==
    /\ status = "complete"
    /\ judgment # NoJudgment
    /\ DOMAIN stories # {}
    /\ eventSourceRef # 0
    /\ readyState[eventSourceRef] = "closed"

(***************************************************************************)
(* C24: the only EventSource that can still call back is the one of the    *)
(* most recently started run, and none after reset: a step that changes    *)
(* the state is startArena, reset, or a callback of the current, not yet   *)
(* closed EventSource.                                                     *)
(***************************************************************************)
C24_OnlyCurrentRunActs ==
    /\ [](\A e \in EventSources : readyState[e] \in {"connecting", "open"} => e = eventSourceRef)
    /\ [][\/ startArena
          \/ reset
          \/ /\ eventSourceRef # 0
             /\ readyState[eventSourceRef] \in {"connecting", "open"}
             /\ \A e \in EventSources \ {eventSourceRef} : readyState'[e] = readyState[e]
          \/ UNCHANGED <<status, prompt, tone, providers, stories, errors, judgment,
                         globalError>>]_vars

\* a second run receives stories after the first run's EventSource was closed
C24_Witness ==
    /\ eventSourceRef = MaxRuns
    /\ readyState[eventSourceRef] = "open"
    /\ \A e \in EventSources \ {eventSourceRef} : readyState[e] = "closed"
    /\ DOMAIN stories # {}

(***************************************************************************)
(* C25: in the /stream handler the successful providers stand in results,  *)
(* and their stories in the judge prompt, in the order in which their      *)
(* story events were written, whatever the order of MODELS; in the agent   *)
(* handler the results given to the judge stand in the order of MODELS,    *)
(* whatever the order in which the calls fulfilled.                        *)
(***************************************************************************)
\* the providers of the story events of the stream, in stream order
StoryOrder ==
    LET idx == Indices({"story"})
        nth(k) == CHOOSE i \in idx : Cardinality({j \in idx : j <= i}) = k
    IN  [k \in 1..Cardinality(idx) |-> stream[nth(k)].data.provider]

C25_ResultOrder ==
    /\ [k \in DOMAIN results |-> results[k].provider] = StoryOrder
    /\ judgeCalls > 0 =>
          [k \in DOMAIN judgePrompt.stories |-> judgePrompt.stories[k].name]
              = [k \in DOMAIN results |-> PROVIDER_DISPLAY_NAMES[results[k].provider]]
    /\ agentJudgeCalls > 0 =>
          /\ [k \in DOMAIN agentResults |-> agentResults[k].provider]
                = [k \in DOMAIN MODELS |-> MODELS[k].provider]
          /\ [k \in DOMAIN agentJudgePrompt.stories |-> agentJudgePrompt.stories[k].name]
                = [k \in DOMAIN MODELS |-> PROVIDER_DISPLAY_NAMES[MODELS[k].provider]]

\* in both handlers the last provider of MODELS answered first
C25_Witness ==
    /\ judgeCalls = 1
    /\ Len(results) = Len(MODELS)
    /\ results[1].provider = MODELS[Len(MODELS)].provider
    /\ agentJudgeCalls = 1
    /\ agentOrder # <<>>
    /\ agentOrder[1] = MODELS[Len(MODELS)].provider

(***************************************************************************)
(* C21: under every interleaving of POST /create requests the number of    *)
(* stored "ai-summary" streams never exceeds MAX_STREAMS.                  *)
(***************************************************************************)
C21_AtMostMaxStreams == Cardinality(store) <= MAX_STREAMS

C26_OneLiveSocket ==
    /\ isConnected =>
            /\ wsRef # 0
            /\ sockets[wsRef].readyState = "OPEN"
            /\ \A s \in Sockets : sockets[s].readyState = "OPEN" => s = wsRef
    /\ Cardinality({s \in Sockets : Live(s)}) <= 1

\* C27: after a manual disconnect, and until the user calls connect again,
\* no reconnect timer is pending, so no automatic reconnection is attempted.
C27_NoReconnectAfterDisconnect == manualDisconnectRef => timers = <<>>


\* the user/assistant pairs of the turns t, in order
MessagesOfTurns(t) ==
    [i \in 1..(2 * Len(t)) |->
        IF i % 2 = 1 THEN UserMessage(t[(i + 1) \div 2].message)
                     ELSE AssistantMessage(t[i \div 2].text)]

\* the last n elements of list
LastN(list, n) ==
    IF Len(list) > n THEN SubSeq(list, Len(list) - n + 1, Len(list)) ELSE list

\* C29: in the chat agent, once the requests made on a thread have all
\* returned, turnCount is the number of chat turns completed since the last
\* reset and the stored messages are the user/assistant pairs of those turns
\* in order, bounded to the last MAX_MESSAGES.
C29_ThreadMatchesTurns ==
    (chatCount > 0 /\ \A r \in ChatSlots : chatReqs[r].pc = "idle") =>
        /\ thread.turnCount = Len(turns)
        /\ thread.messages = LastN(MessagesOfTurns(turns), MAX_MESSAGES)

====
